---- MODULE Spec2Model ----
(***************************************************************************)
(* Node-side volume lifecycle of the block-storage CSI plugin             *)
(* (pkg/disk/nodeserver.go and pkg/ens/nodeserver.go).                    *)
(*                                                                         *)
(* One action per RPC handler; every action models the whole handler.     *)
(* Calls into code outside the two node servers (mount utilities, the     *)
(* cloud attach client, the device manager) are modelled by their effect  *)
(* on the host state plus a fault input f that selects which of them, if  *)
(* any, reports an error in this call.                                    *)
(***************************************************************************)
EXTENDS Integers, Sequences, FiniteSets, TLC

\* ------------------------------------------------------------------ bounds
MaxClock == 1          \* the wall clock stops advancing here
MaxKeyLen == 6         \* longest sysConfig key (in tokens) enumerated by SpecSys

\* ------------------------------------------------------------ value spaces
VolumeIDs == {"d1", "d2"}
Devices == {"b", "c"}            \* base names of /dev/<name>
NoDevice == ""
NoFile == "nofile"               \* the record file <volumeID>.conf is absent
Tmpfs == "tmpfs"
Codes == {"OK", "InvalidArgument", "Aborted", "Internal", "NotFound", "Error"}

\* Strings that the code parses are sequences of tokens: a token is one
\* character ("/", ".", ",", "=", a device letter) or an atomic name.
SysBlock == <<"/", "sys", "/", "block", "/">>

\* BLOCKVOLUMEPREFIX / BLOCK_VOLUME_PREFIX, KubeletRootDir shortened to /kubelet
BLOCKVOLUMEPREFIX == <<"/", "kubelet", "/", "publish">>
\* the root of the secondary global paths, shortened from
\* /var/lib/container/kubelet/plugins/kubernetes.io/csi/pv/
GlobalPath2Root == <<"/", "container", "/", "pv", "/">>
Pods == {"podA", "podB"}
\* the target path kubelet hands out for a filesystem volume of a pod
PodMount(pod) == <<"/", "kubelet", "/", "pods", "/", pod, "/", "pv1", "/", "mount">>
\* the target path kubelet hands out for a raw-block volume of a pod
BlockTarget(pod) == BLOCKVOLUMEPREFIX \o <<"/", "pv1", "/", pod>>
TargetPaths == {PodMount(pod) : pod \in Pods} \cup {BlockTarget("podA")}
\* &lazyInitProvider{fetcher: f}: nothing constructed yet; 0 stands for nil
NewLazyInitProvider ==
    [provider |-> 0, err |-> 0, fetcher |-> TRUE, initMu |-> 0, fetches |-> 0, built |-> 0]
\* a path that does not exist
NoTarget == [kind |-> "none", content |-> "empty", mnt |-> <<>>]

VARIABLES
    cfg,        \* GlobalConfigVar and the node kind, fixed at start-up
    clock,      \* wall clock in whole seconds, the resolution of the record timestamp
    stageDir,   \* [VolumeIDs -> BOOLEAN]: StagingTargetPath exists
    stageMnt,   \* [VolumeIDs -> device | Tmpfs | NoDevice]: what is mounted on it
    broken,     \* [VolumeIDs -> BOOLEAN]: the staging mount answers input/output error
    blkFile,    \* [VolumeIDs -> BOOLEAN]: StagingTargetPath/<VolumeId> exists
    blkMnt,     \* [VolumeIDs -> device | NoDevice]: device bound on that file
    kata,       \* [VolumeIDs -> BOOLEAN]: vol_data.json carries disk-mounted
    devOf,      \* [VolumeIDs -> device | NoDevice]: where the volume is visible on the host
    bdf,        \* [VolumeIDs -> BOOLEAN]: hotplug (bdf) binding present
    record,     \* [VolumeIDs -> device | NoFile]: content of VolumeDir/<id>.conf
    archive,    \* set of [id, ts, dev]: files of VolumeDirRemove, one per (id, ts)
    sysfs,      \* set of [file, value]: sysfs files written, one per file
    target,     \* [TargetPaths -> [kind, content, mnt]]: the publish targets
    global2,    \* [GlobalPaths2 -> state]: the secondary global paths
    proc,       \* [process -> its position and locals]: the calls in flight
    providers,  \* Metadata.providers: the provider chain in order, or its slice header
    lazy,       \* the fields of one lazyInitProvider, and how often FetchFor ran; or [place -> state and locks]
    values,     \* set of [key, v]: immutableProvider.values, one per key; or one such set per provider
    arrays,     \* the backing arrays of the []MetadataProvider slices, by address
    last        \* history: the latest RPC, its arguments, result and the calls it made

vars == <<cfg, clock, stageDir, stageMnt, broken, blkFile, blkMnt, kata, devOf,
          bdf, record, archive, sysfs, target, global2, proc, providers, lazy, values, arrays,
          last>>

\* ------------------------------------------------------- string utilities
\* strings.Index for a one-token separator: 0 when absent
IndexOf(s, t) ==
    IF \E i \in 1..Len(s) : s[i] = t
    THEN CHOOSE i \in 1..Len(s) : s[i] = t /\ \A j \in 1..(i - 1) : s[j] # t
    ELSE 0

\* strings.Split(s, sep)
RECURSIVE SplitOn(_, _)
SplitOn(s, sep) ==
    LET i == IndexOf(s, sep)
    IN IF i = 0 THEN <<s>>
       ELSE <<SubSeq(s, 1, i - 1)>> \o SplitOn(SubSeq(s, i + 1, Len(s)), sep)

\* strings.TrimSpace
RECURSIVE TrimSpace(_)
TrimSpace(s) ==
    IF s # <<>> /\ Head(s) = " " THEN TrimSpace(Tail(s))
    ELSE IF s # <<>> /\ s[Len(s)] = " " THEN TrimSpace(SubSeq(s, 1, Len(s) - 1))
    ELSE s

\* strings.Cut(s, sep)
Cut(s, sep) ==
    LET i == IndexOf(s, sep)
    IN IF i = 0 THEN [before |-> s, after |-> <<>>, found |-> FALSE]
       ELSE [before |-> SubSeq(s, 1, i - 1),
             after |-> SubSeq(s, i + 1, Len(s)), found |-> TRUE]

\* strings.HasPrefix
HasPrefix(s, p) == Len(s) >= Len(p) /\ SubSeq(s, 1, Len(p)) = p

DotDot == <<".", ".">>
Dot == <<".">>

\* the element loop of filepath.Clean: out is the stack of kept elements
RECURSIVE CleanElems(_, _, _)
CleanElems(elems, out, rooted) ==
    IF elems = <<>> THEN out
    ELSE LET e == Head(elems)
             rest == Tail(elems)
         IN IF e = <<>> \/ e = Dot THEN CleanElems(rest, out, rooted)
            ELSE IF e = DotDot
            THEN IF out # <<>> /\ out[Len(out)] # DotDot
                 THEN CleanElems(rest, SubSeq(out, 1, Len(out) - 1), rooted)
                 ELSE IF rooted THEN CleanElems(rest, out, rooted)
                 ELSE CleanElems(rest, Append(out, e), rooted)
            ELSE CleanElems(rest, Append(out, e), rooted)

RECURSIVE JoinElems(_)
JoinElems(elems) ==
    IF elems = <<>> THEN <<>>
    ELSE IF Len(elems) = 1 THEN Head(elems)
    ELSE Head(elems) \o <<"/">> \o JoinElems(Tail(elems))

\* filepath.Clean
Clean(p) ==
    LET rooted == p # <<>> /\ Head(p) = "/"
        out == CleanElems(SplitOn(p, "/"), <<>>, rooted)
    IN IF rooted THEN <<"/">> \o JoinElems(out)
       ELSE IF out = <<>> THEN Dot
       ELSE JoinElems(out)

\* filepath.Base
Base(p) ==
    LET elems == SelectSeq(SplitOn(p, "/"), LAMBDA e : e # <<>>)
    IN IF p = <<>> THEN Dot
       ELSE IF elems = <<>> THEN <<"/">>
       ELSE elems[Len(elems)]

\* the secondary global path unmountDuplicateMountPoint computes from a
\* target path, <<>> for a target path of "illegal format"
GlobalPath2(targetPath) ==
    LET pathParts == SplitOn(targetPath, "/")
        partsLen == Len(pathParts)
    IN IF partsLen > 2 /\ pathParts[partsLen] = <<"mount">>
       THEN Clean(GlobalPath2Root \o <<"/">> \o pathParts[partsLen - 1]
                    \o <<"/", "/", "globalmount">>)
       ELSE <<>>

GlobalPaths2 == {GlobalPath2(PodMount(pod)) : pod \in Pods}

DevPath(d) == <<"/", "dev", "/", d>>

\* fmt.Sprintf("/sys/block/%s/", filepath.Base(device))
SysBase(device) == SysBlock \o Base(device) \o <<"/">>

\* Fault-seeded variant of SysTarget: the prefix test is dropped.
SysTarget_Unchecked(device, key) ==
    [fileName |-> Clean(SysBase(device) \o key), ok |-> TRUE]

\* the sysfs file a sysConfig key names, and whether the code accepts it:
\*   fileName := filepath.Clean(base + key); strings.HasPrefix(fileName, base)
SysTarget(device, key) ==
    LET base == SysBase(device)
        fileName == Clean(base \o key)
    IN [fileName |-> fileName, ok |-> HasPrefix(fileName, base)]


\* ------------------------------------------------------------ configuration
IsVFNode == cfg.vf = "node"
IsVFInstance == cfg.vf \in {"node", "instance"}
ADControllerEnable == cfg.adc                                \* disk: a bool
EnableAttachDetachController == IF cfg.adc THEN "true" ELSE "false"   \* ens: a string
DetachDisabled == cfg.detachDisabled
IsBlockVolume(v) == cfg.cap[v] = "block"

IsMultiAttach == cfg.multi

\* The deployments explored.  Features that do not interact in the code are
\* not combined: hotplug nodes, the detach switch, multi-attach and the
\* environment events (cfg.env) are each explored on their own.
Configs ==
    { c \in [driver : {"disk", "ens"}, adc : BOOLEAN, detachDisabled : BOOLEAN,
             vf : {"none", "node", "instance"}, multi : BOOLEAN,
             env : {"plain", "kata", "tmpfs", "broken"},
             cap : [VolumeIDs -> {"fs", "block"}], vols : SUBSET VolumeIDs] :
        /\ c.driver = "ens" => (c.vf = "none" /\ ~c.detachDisabled /\ ~c.multi /\ c.env # "kata")
        /\ c.adc => (~c.detachDisabled /\ ~c.multi)
        /\ c.vf # "none" => (~c.detachDisabled /\ ~c.multi /\ c.env = "plain")
        /\ c.multi => (~c.detachDisabled /\ c.env = "plain")
        /\ c.env # "plain" => ~c.detachDisabled
        /\ \A v \in VolumeIDs :
              c.cap[v] = "block" => (c.vf = "none" /\ ~c.multi /\ c.env = "plain")
        /\ \A v \in VolumeIDs \ c.vols : c.cap[v] = "fs" }

\* ---------------------------------------------------- the running call
\* A handler is a chain of steps over a record r: the host state of the
\* volume as the call has changed it so far, the handler's locals
\* (tpath, device), the result code ("" while the call is still running)
\* and the history of the external calls it has made.
Begin(v) ==
    [code |-> "", vol |-> v, tpath |-> "stage", device |-> NoDevice,
     dir |-> stageDir[v], smnt |-> stageMnt[v], brk |-> broken[v],
     blk |-> blkFile[v], bmnt |-> blkMnt[v], dev |-> devOf[v], bdf |-> bdf[v],
     rec |-> record[v], arch |-> archive, sysfs |-> sysfs, reached |-> FALSE,
     attach |-> FALSE, lookup |-> FALSE, bind |-> FALSE, unbind |-> FALSE,
     verify |-> "none", saved |-> FALSE, archived |-> FALSE, sysw |-> {},
     mount |-> FALSE, unmount |-> "none", detach |-> FALSE]

Return(r, code) == [r EXCEPT !.code = code]
Then(r, Step(_)) == IF r.code # "" THEN r ELSE Step(r)
Finish(r, code) == IF r.code # "" THEN r ELSE Return(r, code)

\* what is mounted on the path the call operates on
MountedOn(r) == IF r.tpath = "blk" THEN r.bmnt ELSE r.smnt
PathExists(r) == IF r.tpath = "blk" THEN r.dir /\ r.blk ELSE r.dir

\* k8smounter.IsLikelyNotMountPoint(targetPath): [notMnt, err]
IsLikelyNotMountPoint(r, fails) ==
    IF fails THEN [notMnt |-> TRUE, err |-> "other"]
    ELSE IF ~PathExists(r) THEN [notMnt |-> TRUE, err |-> "notexist"]
    ELSE [notMnt |-> MountedOn(r) = NoDevice, err |-> "nil"]

\* disk.CheckDeviceAvailable(devicePath, volumeID, targetPath): the device
\* path must name the device that currently backs the volume
CheckDeviceAvailable(device, r) == device # NoDevice /\ r.dev = device

\* the timestamp of removeVolumeConfig: time.Now().Format("2006-01-02-15:04:05"),
\* which keeps the whole seconds of the wall clock
TimeStr == clock

\* os.Rename(volumeFile, removeFile): replaces an existing removeFile
Rename(arch, v, ts, content) ==
    {e \in arch : ~(e.id = v /\ e.ts = ts)} \cup {[id |-> v, ts |-> ts, dev |-> content]}

\* removeVolumeConfig(volumeID): r.err tells whether it returned an error
RemoveLive(r, f) ==
    IF r.rec = NoFile THEN r
    ELSE IF f = "renameErr" THEN Return(r, "err")
    ELSE [r EXCEPT !.arch = Rename(r.arch, r.vol, TimeStr, r.rec), !.rec = NoFile,
                   !.archived = TRUE]

removeVolumeConfig(r, f) == RemoveLive(r, f)

\* Fault-seeded variant of WriteLive: the write keeps the content the file had.
WriteLive_Stale(r, f) ==
    IF f = "writeErr" THEN [r EXCEPT !.code = "err"]
    ELSE [r EXCEPT !.saved = TRUE]

\* saveVolumeConfig(volumeID, devicePath); code "err" stands for its error
WriteLive(r, f) ==
    IF f = "writeErr" THEN Return(r, "err")
    ELSE [r EXCEPT !.rec = r.device, !.saved = TRUE]

saveVolumeConfig(r, f) ==
    LET r0 == [r EXCEPT !.reached = TRUE]
    IN IF f = "createDestErr" THEN Return(r0, "err")
       ELSE Then(removeVolumeConfig(r0, f), LAMBDA x : WriteLive(x, f))


\* ------------------------------------------------------------ device resolver
\* The path a stale naming convention yields: not the device of the volume.
StalePath(dev) == CHOOSE d \in Devices : d # dev

\* attachDisk(volumeID, nodeID): attaches (a no-op when already attached,
\* else the volume shows up as the free device d) and returns the device path
attachDisk(r, d, f) ==
    IF f = "attachErr" THEN Return([r EXCEPT !.attach = TRUE], "err")
    ELSE LET at == IF r.dev # NoDevice THEN r.dev ELSE d
         IN [r EXCEPT !.attach = TRUE, !.dev = at,
                      !.device = IF f = "staleDevice" THEN StalePath(at) ELSE at]

\* DefaultDeviceManager.GetDeviceByVolumeID(volumeID)
GetDeviceByVolumeID(r, f) ==
    IF r.dev = NoDevice THEN Return([r EXCEPT !.lookup = TRUE], "err")
    ELSE [r EXCEPT !.lookup = TRUE,
                   !.device = IF f = "staleDevice" THEN StalePath(r.dev) ELSE r.dev]

\* ens: getVolumeDeviceName(volumeID), "" when the device is not there
getVolumeDeviceName(r, f) ==
    [r EXCEPT !.lookup = TRUE,
              !.device = IF r.dev # NoDevice /\ f = "staleDevice"
                         THEN StalePath(r.dev) ELSE r.dev]

\* bindBdfDisk(volumeID) followed by GetDeviceByBdf(bdf, true)
bindBdfDisk(r, d, f) ==
    IF f = "bindErr" THEN Return([r EXCEPT !.bind = TRUE, !.unbind = TRUE, !.bdf = FALSE], "err")
    ELSE IF f = "noBdf" THEN [r EXCEPT !.bind = TRUE]
    ELSE [r EXCEPT !.bind = TRUE, !.bdf = TRUE, !.dev = d,
                   !.device = IF f = "staleDevice" THEN StalePath(d) ELSE d]

\* Step 4 of NodeStageVolume: resolve or attach the device
ResolveDisk(r, d, f) ==
    IF ADControllerEnable \/ IsMultiAttach
    THEN LET g == GetDeviceByVolumeID(r, f)
         IN IF g.code = "" THEN g
            ELSE IF IsVFNode
            THEN LET b == bindBdfDisk([g EXCEPT !.code = ""], d, f)
                 IN IF b.code # "" THEN Return(b, "Aborted") ELSE b
            ELSE Return(g, "Aborted")
    ELSE LET a == attachDisk(r, d, f)
         IN IF a.code # "" THEN Return(a, "Aborted") ELSE a

ResolveEns(r, d, f) ==
    IF EnableAttachDetachController = "true"
    THEN getVolumeDeviceName(r, f)
    ELSE LET a == attachDisk(r, d, f)
         IN IF a.code # "" THEN Return(a, "Aborted") ELSE a

\* ------------------------------------------------------------ NodeStageVolume
\* utils.ValidateRequest(req.VolumeContext) (disk only)
StageValidate(r, f) ==
    IF cfg.driver = "disk" /\ f = "badRequest" THEN Return(r, "InvalidArgument") ELSE r

\* block: first mount check on <staging>/<volumeID> and EnsureBlock
\* filesystem: EnsureFolder / os.MkdirAll of the staging path
StageEnsure(r, f) ==
    IF IsBlockVolume(r.vol)
    THEN LET t == [r EXCEPT !.tpath = "blk"]
             chk == IsLikelyNotMountPoint(t, f = "mntChkErr")
         IN IF chk.err = "other" THEN Return(t, "Internal")
            ELSE IF ~chk.notMnt THEN Return(t, "OK")
            ELSE IF f = "ensureErr" \/ ~t.dir THEN Return(t, "Internal")
            ELSE [t EXCEPT !.blk = TRUE]
    ELSE IF f = "ensureErr" THEN Return(r, "Internal")
    ELSE [r EXCEPT !.dir = TRUE]

\* disk only: vol_data.json carries csi.alibabacloud.com/disk-mounted
StageKata(r) ==
    IF cfg.driver = "disk" /\ kata[r.vol] THEN Return(r, "OK") ELSE r

\* Fault-seeded variant of StageMounted: a mounted staging target is not noticed.
StageMounted_NoFastPath(r, f) ==
    IF f = "mntChkErr" /\ ~IsBlockVolume(r.vol) THEN [r EXCEPT !.code = "Internal"] ELSE r

\* Step 2: the staging target is already mounted
StageMounted(r, f) ==
    LET chk == IsLikelyNotMountPoint(r, f = "mntChkErr" /\ ~IsBlockVolume(r.vol))
    IN IF chk.err # "nil" THEN Return(r, "Internal")
       ELSE IF chk.notMnt THEN r
       ELSE IF f = "tmpfsChkErr" THEN Return(r, "Internal")
       ELSE IF r.smnt = Tmpfs THEN Return(r, "OK")
       ELSE IF f = "devNameErr" THEN Return(r, "Internal")
       ELSE IF ~CheckDeviceAvailable(MountedOn(r), r)
       THEN Return([r EXCEPT !.verify = "fail"], "Internal")
       ELSE Return([r EXCEPT !.verify = "ok"], "OK")

StageResolve(r, d, f) ==
    IF cfg.driver = "disk" THEN ResolveDisk(r, d, f) ELSE ResolveEns(r, d, f)

\* Fault-seeded variant of StageVerify: the result of the check is not acted on.
StageVerify_Unchecked(r) ==
    [r EXCEPT !.verify = IF r.device # NoDevice /\ r.dev = r.device THEN "ok" ELSE "fail"]

StageVerify(r) ==
    IF ~CheckDeviceAvailable(r.device, r)
    THEN Return([r EXCEPT !.verify = "fail"], "Internal")
    ELSE [r EXCEPT !.verify = "ok"]

StageSave(r, f) ==
    LET x == saveVolumeConfig(r, f)
    IN IF x.code # "" THEN Return(x, "Aborted") ELSE x

\* utilsio.WriteTrunc(unix.AT_FDCWD, fileName, value)
WriteTrunc(files, fileName, value) ==
    {w \in files : w.file # fileName} \cup {[file |-> fileName, value |-> value]}

\* disk: DefaultDeviceManager.WriteSysfs(device, key, value)
WriteSysfs(r, key, value, f) ==
    LET t == SysTarget(DevPath(r.device), key)
    IN IF ~t.ok \/ f = "sysfsWriteErr" THEN Return(r, "err")
       ELSE [r EXCEPT !.sysfs = WriteTrunc(@, t.fileName, value),
                      !.sysw = @ \cup {t.fileName}]

\* the sysConfig loop over configList
RECURSIVE SysConfigLoop(_, _, _)
SysConfigLoop(r, configList, f) ==
    IF configList = <<>> THEN r
    ELSE LET c == Cut(Head(configList), "=")
             t == SysTarget(DevPath(r.device), c.before)
         IN IF ~c.found THEN Return(r, "Aborted")
            ELSE IF cfg.driver = "disk"
            THEN LET w == WriteSysfs(r, c.before, c.after, f)
                 IN IF w.code # "" THEN Return(w, "Aborted")
                    ELSE SysConfigLoop(w, Tail(configList), f)
            ELSE IF ~t.ok THEN Return(r, "Aborted")
            ELSE IF f = "sysfsWriteErr" THEN Return(r, "Internal")
            ELSE SysConfigLoop([r EXCEPT !.sysfs = WriteTrunc(@, t.fileName, c.after),
                                         !.sysw = @ \cup {t.fileName}],
                               Tail(configList), f)

\* sys is the value of VolumeContext["sysConfig"], or "absent"
StageSysConfig(r, sys, f) ==
    IF sys = "absent" THEN r
    ELSE SysConfigLoop(r, SplitOn(TrimSpace(sys), ","), f)

\* block: bind the device on the staging file; filesystem: FormatAndMount,
\* then (disk) the resize check of a volume created from a snapshot
StageMount(r, f) ==
    IF IsBlockVolume(r.vol)
    THEN LET chk == IsLikelyNotMountPoint(r, FALSE)
         IN IF chk.err # "nil" THEN Return(r, "Internal")
            ELSE IF ~chk.notMnt THEN Return(r, "OK")
            ELSE IF f = "mountErr" THEN Return([r EXCEPT !.mount = TRUE], "Internal")
            ELSE Return([r EXCEPT !.mount = TRUE, !.bmnt = r.device], "OK")
    ELSE IF f = "mountErr" THEN Return([r EXCEPT !.mount = TRUE], "Internal")
    ELSE IF cfg.driver = "disk" /\ f = "resizeErr"
    THEN Return([r EXCEPT !.mount = TRUE, !.smnt = r.device], "Internal")
    ELSE Return([r EXCEPT !.mount = TRUE, !.smnt = r.device], "OK")

NodeStageVolume(v, sys, d, f) ==
    LET r1 == StageValidate(Begin(v), f)
        r2 == Then(r1, LAMBDA r : StageEnsure(r, f))
        r3 == Then(r2, StageKata)
        r4 == Then(r3, LAMBDA r : StageMounted(r, f))
        r5 == Then(r4, LAMBDA r : StageResolve(r, d, f))
        r6 == Then(r5, StageVerify)
        r7 == Then(r6, LAMBDA r : StageSave(r, f))
        r8 == Then(r7, LAMBDA r : StageSysConfig(r, sys, f))
    IN Then(r8, LAMBDA r : StageMount(r, f))


\* ---------------------------------------------------------- NodeUnstageVolume
\* /sys/block/<device> goes away with the device
DropSysfs(files, dev) ==
    IF dev = NoDevice THEN files
    ELSE {w \in files : ~HasPrefix(w.file, SysBase(DevPath(dev)))}

\* what os.Lstat(tmpPath) of <staging>/<volumeID> reports
LstatTmpPath(r, f) ==
    IF f = "lstatErr" THEN "otherErr"
    ELSE IF r.smnt # NoDevice /\ r.brk THEN "ioErr"
    ELSE IF ~(r.dir /\ r.blk) \/ r.smnt # NoDevice THEN "absent"
    ELSE IF r.bmnt # NoDevice THEN "device"
    ELSE "file"

\* k8smounter.Unmount(targetPath); a stacked mount stays behind ("stillMounted").
\* r.unmount keeps what the latest Unmount of the call reported.
Unmount(r, f) ==
    IF f = "unmountErr" THEN Return([r EXCEPT !.unmount = "err"], "err")
    ELSE IF f = "stillMounted" THEN [r EXCEPT !.unmount = "ok"]
    ELSE IF r.tpath = "blk" THEN [r EXCEPT !.unmount = "ok", !.bmnt = NoDevice]
    ELSE [r EXCEPT !.unmount = "ok", !.smnt = NoDevice, !.brk = FALSE]

\* Fault-seeded variant of UnstageLocate: every error of the probe ends the call.
UnstageLocate_AnyStatError(r, f) ==
    LET st == LstatTmpPath(r, f)
    IN IF st = "absent" THEN r
       ELSE IF st \in {"otherErr", "ioErr"} THEN Return(r, "InvalidArgument")
       ELSE IF cfg.driver = "disk" \/ st = "device" THEN [r EXCEPT !.tpath = "blk"]
       ELSE r

\* the block-device probe of tmpPath and the input/output error branch
UnstageLocate(r, f) ==
    LET st == LstatTmpPath(r, f)
    IN IF st = "absent" THEN r
       ELSE IF st = "otherErr" THEN Return(r, "InvalidArgument")
       ELSE IF st = "ioErr"
       THEN IF f = "pathAvailable" THEN r   \* isPathAvailiable(targetPath) == nil
            ELSE LET u == Unmount(r, f)
                 IN IF u.code # "" THEN Return(u, "InvalidArgument") ELSE u
       ELSE IF cfg.driver = "disk" \/ st = "device" THEN [r EXCEPT !.tpath = "blk"]
       ELSE r

\* Fault-seeded variant of UnstageUnmount: no second mount-point check.
UnstageUnmount_NoRecheck(r, f) ==
    IF ~PathExists(r) THEN r
    ELSE LET chk == IsLikelyNotMountPoint(r, f = "mntChkErr")
         IN IF chk.err # "nil" THEN [r EXCEPT !.code = "Internal"]
            ELSE IF chk.notMnt THEN r
            ELSE LET u == Unmount(r, f)
                 IN IF u.code # "" THEN [u EXCEPT !.code = "Internal"] ELSE u

\* Fault-seeded variant of UnstageUnmount: a path that is not mounted is an error.
UnstageUnmount_Strict(r, f) ==
    IF ~PathExists(r) THEN [r EXCEPT !.code = "Internal"]
    ELSE LET chk == IsLikelyNotMountPoint(r, f = "mntChkErr")
         IN IF chk.err # "nil" \/ chk.notMnt THEN [r EXCEPT !.code = "Internal"]
            ELSE LET u == Unmount(r, f)
                     re == IsLikelyNotMountPoint(u, f = "recheckErr")
                 IN IF u.code # "" \/ re.err # "nil" \/ ~re.notMnt
                    THEN [u EXCEPT !.code = "Internal"]
                    ELSE u

\* Step 1: check folder exists and umount
UnstageUnmount(r, f) ==
    IF ~PathExists(r) THEN r
    ELSE LET chk == IsLikelyNotMountPoint(r, f = "mntChkErr")
         IN IF chk.err # "nil" THEN Return(r, "Internal")
            ELSE IF chk.notMnt THEN r
            ELSE LET u == Unmount(r, f)
                     re == IsLikelyNotMountPoint(u, f = "recheckErr")
                 IN IF u.code # "" THEN Return(u, "Internal")
                    ELSE IF re.err # "nil" THEN Return(u, "Internal")
                    ELSE IF ~re.notMnt THEN Return(u, "Internal")
                    ELSE u

\* disk only: unbindBdfDisk on a VF node, findBdf and clearBdfInfo on a VF instance
UnstageUnbind(r, f) ==
    IF cfg.driver # "disk" THEN r
    ELSE IF IsVFNode
    THEN IF f = "unbindErr" THEN Return([r EXCEPT !.unbind = TRUE], "Error")
         ELSE [r EXCEPT !.unbind = TRUE, !.bdf = FALSE,
                        !.dev = IF r.bdf THEN NoDevice ELSE @,
                        !.sysfs = IF r.bdf THEN DropSysfs(@, r.dev) ELSE @]
    ELSE IF IsVFInstance
    THEN IF f = "findBdfErr" THEN Return(r, "Error")
         ELSE IF f = "clearBdfErr" THEN Return([r EXCEPT !.unbind = TRUE], "Error")
         ELSE [r EXCEPT !.unbind = TRUE, !.bdf = FALSE]
    ELSE r

\* detachDisk(volumeID, nodeID)
detachDisk(r, f) ==
    IF f = "detachErr" THEN Return([r EXCEPT !.detach = TRUE], "Error")
    ELSE [r EXCEPT !.detach = TRUE, !.dev = NoDevice, !.sysfs = DropSysfs(@, r.dev)]

\* removeVolumeConfig with its error dropped, as both callers do
ArchiveIgnoringError(r, f) ==
    LET x == removeVolumeConfig(r, f) IN [x EXCEPT !.code = ""]

\* Fault-seeded variant of UnstageDetach: detach whatever the deployment says.
UnstageDetach_Always(r, f) ==
    LET d == IF f = "detachErr" THEN [r EXCEPT !.detach = TRUE, !.code = "Error"]
             ELSE [r EXCEPT !.detach = TRUE, !.dev = NoDevice]
    IN IF d.code # "" THEN d ELSE [d EXCEPT !.code = "OK"]

\* Fault-seeded variant of DetachAndArchive: the record is archived
\* whatever detachDisk returned.
DetachAndArchive_Regardless(r, f) ==
    LET d == detachDisk(r, f)
    IN [ArchiveIgnoringError([d EXCEPT !.code = ""], f) EXCEPT !.code = d.code]

\* detachDisk and, when it succeeded, removeVolumeConfig
DetachAndArchive(r, f) ==
    Then(detachDisk(r, f), LAMBDA x : ArchiveIgnoringError(x, f))

\* Do detach if ADController disable
UnstageDetach(r, f) ==
    IF cfg.driver = "disk"
    THEN IF ADControllerEnable THEN Return(r, "OK")
         ELSE IF DetachDisabled THEN Return(r, "OK")
         ELSE IF f = "ecsClientErr" THEN Return(r, "Internal")
         ELSE Finish(DetachAndArchive(r, f), "OK")
    ELSE IF EnableAttachDetachController = "false"
    THEN Finish(DetachAndArchive(r, f), "OK")
    ELSE Return(r, "OK")

NodeUnstageVolume(v, f) ==
    LET r1 == UnstageLocate(Begin(v), f)
        r2 == Then(r1, LAMBDA r : UnstageUnmount(r, f))
        r3 == Then(r2, LAMBDA r : UnstageUnbind(r, f))
    IN Then(r3, LAMBDA r : UnstageDetach(r, f))


\* ------------------------------------------------------------------ actions
\* VolumeContext["sysConfig"] values the requests carry
SysConfigs ==
    { "absent",
      <<"x", "=", "1">>,
      <<"x", "=", "1", ",", "y">> }

\* which external call, if any, reports an error in a call
StageFaults ==
    {"none", "mntChkErr", "ensureErr", "tmpfsChkErr", "devNameErr", "staleDevice",
     "createDestErr", "renameErr", "writeErr", "sysfsWriteErr", "mountErr"}
       \cup (IF cfg.driver = "disk" THEN {"badRequest", "resizeErr"} ELSE {})
       \cup (IF IsVFNode THEN {"bindErr", "noBdf"} ELSE {})
       \cup (IF cfg.adc \/ cfg.multi THEN {} ELSE {"attachErr"})

UnstageFaults ==
    {"none", "lstatErr", "pathAvailable", "mntChkErr", "unmountErr", "stillMounted",
     "recheckErr"}
       \cup (IF IsVFNode THEN {"unbindErr"} ELSE {})
       \cup (IF IsVFInstance /\ ~IsVFNode THEN {"findBdfErr", "clearBdfErr"} ELSE {})
       \cup (IF cfg.adc \/ cfg.detachDisabled THEN {}
             ELSE {"detachErr", "renameErr"} \cup
                  (IF cfg.driver = "disk" THEN {"ecsClientErr"} ELSE {}))

\* devices no other volume is visible as
FreeDevices(v) == {d \in Devices : \A w \in VolumeIDs \ {v} : devOf[w] # d}

\* The device a volume that is not visible yet may show up as.  Device
\* names are interchangeable, so on a host without any history the first
\* device is fixed.
DeviceChoices(v) ==
    IF devOf[v] # NoDevice THEN {devOf[v]}
    ELSE IF archive = {} /\ sysfs = {} /\ \A w \in VolumeIDs : record[w] = NoFile /\ devOf[w] = NoDevice
    THEN {CHOOSE d \in Devices : TRUE}
    ELSE FreeDevices(v)

Idle == [op |-> "none"]

\* nominal: no external call reported an error that changed the call's course
\* again: the call repeats the latest call
Summary(op, r, sys, nominal) ==
    [op |-> op, vol |-> r.vol, sys |-> sys, nominal |-> nominal, again |-> (last # Idle),
     code |-> r.code, tpath |-> r.tpath, device |-> r.device,
     attach |-> r.attach, lookup |-> r.lookup, bind |-> r.bind, unbind |-> r.unbind,
     verify |-> r.verify, reached |-> r.reached, saved |-> r.saved,
     archived |-> r.archived, sysw |-> r.sysw, mount |-> r.mount,
     unmount |-> r.unmount, detach |-> r.detach]

\* the host state after the call that ended in r
Commit(r) ==
    /\ stageDir' = [stageDir EXCEPT ![r.vol] = r.dir]
    /\ stageMnt' = [stageMnt EXCEPT ![r.vol] = r.smnt]
    /\ broken' = [broken EXCEPT ![r.vol] = r.brk]
    /\ blkFile' = [blkFile EXCEPT ![r.vol] = r.blk]
    /\ blkMnt' = [blkMnt EXCEPT ![r.vol] = r.bmnt]
    /\ devOf' = [devOf EXCEPT ![r.vol] = r.dev]
    /\ bdf' = [bdf EXCEPT ![r.vol] = r.bdf]
    /\ record' = [record EXCEPT ![r.vol] = r.rec]
    /\ archive' = r.arch
    /\ sysfs' = r.sysfs

\* A call either follows a settled state (last = Idle, any arguments) or
\* repeats the latest call, which succeeded, with the same arguments.
\* Settle forgets the latest call; it changes no program state, so a retry
\* of a failed call is Settle followed by the call.
StageCall(v, sys) ==
    /\ \E d \in DeviceChoices(v) :
          LET r0 == NodeStageVolume(v, sys, d, "none")
          IN \E f \in StageFaults :
                LET r == NodeStageVolume(v, sys, d, f)
                IN /\ Commit(r)
                   /\ last' = Summary("Stage", r, sys, r = r0)
    /\ UNCHANGED <<lazy, values, arrays, proc, providers, target, global2, cfg, clock, kata>>

Stage(v) ==
    /\ last = Idle \/ (last.op = "Stage" /\ last.vol = v /\ last.code = "OK")
    /\ \E sys \in (IF last = Idle THEN SysConfigs ELSE {last.sys}) : StageCall(v, sys)

Unstage(v) ==
    /\ last = Idle \/ (last.op = "Unstage" /\ last.vol = v /\ last.code = "OK")
    /\ LET r0 == NodeUnstageVolume(v, "none")
       IN \E f \in UnstageFaults :
             LET r == NodeUnstageVolume(v, f)
             IN /\ Commit(r)
                /\ last' = Summary("Unstage", r, "absent", r = r0)
    /\ UNCHANGED <<lazy, values, arrays, proc, providers, target, global2, cfg, clock, kata>>

Settle ==
    /\ last # Idle
    /\ last' = Idle
    /\ UNCHANGED <<lazy, values, arrays, proc, providers, target, global2, cfg, clock, stageDir, stageMnt, broken, blkFile, blkMnt, kata,
                   devOf, bdf, record, archive, sysfs>>

\* ---- the environment
\* Only removeVolumeConfig reads the clock, so time is let pass where a
\* record that could be archived exists.
Tick ==
    /\ last = Idle /\ clock < MaxClock /\ \E v \in cfg.vols : record[v] # NoFile
    /\ clock' = clock + 1
    /\ UNCHANGED <<lazy, values, arrays, proc, providers, target, global2, cfg, stageDir, stageMnt, broken, blkFile, blkMnt, kata, devOf,
                   bdf, record, archive, sysfs, last>>

\* kubelet creates the staging directory before it calls NodeStageVolume
KubeletMkdir(v) ==
    /\ last = Idle /\ ~stageDir[v]
    /\ stageDir' = [stageDir EXCEPT ![v] = TRUE]
    /\ UNCHANGED <<lazy, values, arrays, proc, providers, target, global2, cfg, clock, stageMnt, broken, blkFile, blkMnt, kata, devOf,
                   bdf, record, archive, sysfs, last>>

\* the external attach/detach controller
ControllerAttach(v) ==
    /\ last = Idle /\ (cfg.adc \/ cfg.multi) /\ ~IsVFNode /\ devOf[v] = NoDevice
    /\ \E d \in FreeDevices(v) : devOf' = [devOf EXCEPT ![v] = d]
    /\ UNCHANGED <<lazy, values, arrays, proc, providers, target, global2, cfg, clock, stageDir, stageMnt, broken, blkFile, blkMnt, kata,
                   bdf, record, archive, sysfs, last>>

ControllerDetach(v) ==
    /\ last = Idle /\ cfg.adc /\ ~IsVFNode /\ devOf[v] # NoDevice
    /\ stageMnt[v] \in {NoDevice, Tmpfs} /\ blkMnt[v] = NoDevice
    /\ devOf' = [devOf EXCEPT ![v] = NoDevice]
    /\ sysfs' = DropSysfs(sysfs, devOf[v])
    /\ UNCHANGED <<lazy, values, arrays, proc, providers, target, global2, cfg, clock, stageDir, stageMnt, broken, blkFile, blkMnt, kata,
                   bdf, record, archive, last>>

\* an alternate runtime marks the volume as mounted by itself (vol_data.json)
KataMark(v) ==
    /\ last = Idle /\ cfg.env = "kata" /\ ~kata[v]
    /\ stageMnt[v] = NoDevice /\ blkMnt[v] = NoDevice
    /\ kata' = [kata EXCEPT ![v] = TRUE]
    /\ UNCHANGED <<lazy, values, arrays, proc, providers, target, global2, cfg, clock, stageDir, stageMnt, broken, blkFile, blkMnt, devOf,
                   bdf, record, archive, sysfs, last>>

\* the staging path gets an in-memory filesystem mounted on it
TmpfsMount(v) ==
    /\ last = Idle /\ cfg.env = "tmpfs" /\ stageDir[v] /\ stageMnt[v] = NoDevice
    /\ stageMnt' = [stageMnt EXCEPT ![v] = Tmpfs]
    /\ UNCHANGED <<lazy, values, arrays, proc, providers, target, global2, cfg, clock, stageDir, broken, blkFile, blkMnt, kata, devOf,
                   bdf, record, archive, sysfs, last>>

\* the staging mount starts to answer input/output error
BreakMount(v) ==
    /\ last = Idle /\ cfg.env = "broken" /\ stageMnt[v] \in Devices /\ ~broken[v]
    /\ broken' = [broken EXCEPT ![v] = TRUE]
    /\ UNCHANGED <<lazy, values, arrays, proc, providers, target, global2, cfg, clock, stageDir, stageMnt, blkFile, blkMnt, kata, devOf,
                   bdf, record, archive, sysfs, last>>

InitNode ==
    /\ clock = 0
    /\ stageDir = [v \in VolumeIDs |-> FALSE]
    /\ stageMnt = [v \in VolumeIDs |-> NoDevice]
    /\ broken = [v \in VolumeIDs |-> FALSE]
    /\ blkFile = [v \in VolumeIDs |-> FALSE]
    /\ blkMnt = [v \in VolumeIDs |-> NoDevice]
    /\ kata = [v \in VolumeIDs |-> FALSE]
    /\ devOf = [v \in VolumeIDs |-> NoDevice]
    /\ bdf = [v \in VolumeIDs |-> FALSE]
    /\ record = [v \in VolumeIDs |-> NoFile]
    /\ archive = {}
    /\ sysfs = {}
    /\ target = [t \in TargetPaths |-> NoTarget]
    /\ global2 = [g \in GlobalPaths2 |-> "absent"]
    /\ proc = <<>>
    /\ last = Idle

InitHost ==
    /\ InitNode
    /\ providers = <<>>
    /\ lazy = NewLazyInitProvider
    /\ values = {}
    /\ arrays = <<>>

\* one volume, every deployment
Init ==
    /\ cfg \in {c \in Configs : c.vols = {"d1"}}
    /\ InitHost

Next ==
    \/ \E v \in cfg.vols : Stage(v)
    \/ \E v \in cfg.vols : Unstage(v)
    \/ Settle
    \/ Tick
    \/ \E v \in cfg.vols : KubeletMkdir(v)
    \/ \E v \in cfg.vols : ControllerAttach(v)
    \/ \E v \in cfg.vols : ControllerDetach(v)
    \/ \E v \in cfg.vols : KataMark(v)
    \/ \E v \in cfg.vols : TmpfsMount(v)
    \/ \E v \in cfg.vols : BreakMount(v)

Spec == Init /\ [][Next]_vars

\* ------------------------------------------------ a broken staging mount
\* A third look at NodeUnstageVolume, on the nodes whose staging mount may
\* start to answer input/output error.  The call is the one of Unstage; the
\* summary also keeps what the probe of tmpPath reported and which external
\* call, if any, failed.
UnstageBroken(v) ==
    /\ last = Idle
    /\ \E f \in UnstageFaults :
          LET r == NodeUnstageVolume(v, f)
          IN /\ Commit(r)
             /\ last' = [stat |-> LstatTmpPath(Begin(v), f), fault |-> f]
                            @@ Summary("Unstage", r, "absent", f = "none")
    /\ UNCHANGED <<lazy, values, arrays, proc, providers, target, global2, cfg, clock, kata>>

InitBroken ==
    /\ cfg \in {c \in Configs : c.vols = {"d1"} /\ c.env = "broken"}
    /\ InitHost

NextBroken ==
    \/ \E v \in cfg.vols : Stage(v)
    \/ \E v \in cfg.vols : UnstageBroken(v)
    \/ Settle
    \/ Tick
    \/ \E v \in cfg.vols : KubeletMkdir(v)
    \/ \E v \in cfg.vols : ControllerAttach(v)
    \/ \E v \in cfg.vols : ControllerDetach(v)
    \/ \E v \in cfg.vols : BreakMount(v)

SpecBroken == InitBroken /\ [][NextBroken]_vars

\* ------------------------------------------------ a staging path found mounted
\* NodeStageVolume on a node whose disk can be taken away through the cloud
\* API while its mount is still there, so that a later call finds the staging
\* target mounted from a device that is no longer the volume's.
CloudDetach(v) ==
    /\ last = Idle /\ devOf[v] # NoDevice
    /\ devOf' = [devOf EXCEPT ![v] = NoDevice]
    /\ sysfs' = DropSysfs(sysfs, devOf[v])
    /\ UNCHANGED <<lazy, values, arrays, proc, providers, target, global2, cfg, clock, stageDir, stageMnt, broken, blkFile, blkMnt, kata,
                   bdf, record, archive, last>>

InitFast ==
    /\ cfg \in {c \in Configs : /\ c.vols = {"d1"} /\ c.vf = "none" /\ ~c.multi
                                /\ c.env \in {"plain", "kata", "tmpfs"}}
    /\ InitHost

NextFast ==
    \/ \E v \in cfg.vols : Stage(v)
    \/ Settle
    \/ \E v \in cfg.vols : KubeletMkdir(v)
    \/ \E v \in cfg.vols : ControllerAttach(v)
    \/ \E v \in cfg.vols : CloudDetach(v)
    \/ \E v \in cfg.vols : KataMark(v)
    \/ \E v \in cfg.vols : TmpfsMount(v)

SpecFast == InitFast /\ [][NextFast]_vars

\* ------------------------------------------------- sysConfig keys at large
\* A second specification for the sysConfig path check: a key is built token
\* by token, then one NodeStageVolume call carries the pair <key>=1.
KeyTokens == {"/", ".", "b"}

KeyToken ==
    /\ last.op = "key" /\ Len(last.key) < MaxKeyLen
    /\ \E t \in KeyTokens : last' = [last EXCEPT !.key = Append(@, t)]
    /\ UNCHANGED <<lazy, values, arrays, proc, providers, target, global2, cfg, clock, stageDir, stageMnt, broken, blkFile, blkMnt, kata,
                   devOf, bdf, record, archive, sysfs>>

StageKey(v) ==
    /\ last.op = "key"
    /\ StageCall(v, last.key \o <<"=", "1">>)

InitSys ==
    /\ cfg \in {c \in Configs : /\ c.vols = {"d1"} /\ c.cap["d1"] = "fs" /\ ~c.adc
                                /\ c.env = "plain" /\ c.vf = "none"
                                /\ ~c.multi /\ ~c.detachDisabled}
    /\ clock = 0
    /\ stageDir = [v \in VolumeIDs |-> FALSE]
    /\ stageMnt = [v \in VolumeIDs |-> NoDevice]
    /\ broken = [v \in VolumeIDs |-> FALSE]
    /\ blkFile = [v \in VolumeIDs |-> FALSE]
    /\ blkMnt = [v \in VolumeIDs |-> NoDevice]
    /\ kata = [v \in VolumeIDs |-> FALSE]
    /\ devOf = [v \in VolumeIDs |-> NoDevice]
    /\ bdf = [v \in VolumeIDs |-> FALSE]
    /\ record = [v \in VolumeIDs |-> NoFile]
    /\ archive = {}
    /\ sysfs = {}
    /\ target = [t \in TargetPaths |-> NoTarget]
    /\ global2 = [g \in GlobalPaths2 |-> "absent"]
    /\ proc = <<>>
    /\ providers = <<>>
    /\ lazy = NewLazyInitProvider
    /\ values = {}
    /\ arrays = <<>>
    /\ last = [op |-> "key", key |-> <<>>]

NextSys ==
    \/ KeyToken
    \/ \E v \in cfg.vols : StageKey(v)

SpecSys == InitSys /\ [][NextSys]_vars

\* ---------------------------------------------------------- NodePublishVolume
\* The running Publish call: the staging state of the volume (Begin), the
\* target path and its state as the call has changed it so far (tk kind,
\* tc content, tm the stack of mounts on it), the vol_data.json marker, and
\* what the call found on the staging path (src), and the mount calls issued:
\* remount (mountDeviceToGlobal), srcmount (Mount of the expected device on
\* the staging path), binds (mounts onto the target).
BeginPublish(v, t) ==
    [tgt |-> t, tk |-> target[t].kind, tc |-> target[t].content, tm |-> target[t].mnt,
     kat |-> kata[v], src |-> "unchecked", remount |-> FALSE, srcmount |-> FALSE,
     binds |-> 0]
       @@ Begin(v)

\* k8smounter.IsLikelyNotMountPoint(targetPath): [notMnt, err]
TargetNotMountPoint(r, fails) ==
    IF fails THEN [notMnt |-> TRUE, err |-> "other"]
    ELSE IF r.tk = "none" THEN [notMnt |-> TRUE, err |-> "notexist"]
    ELSE [notMnt |-> r.tm = <<>>, err |-> "nil"]

\* utils.ValidateRequest(req.VolumeContext) (disk only)
PublishValidate(r, f) ==
    IF cfg.driver = "disk" /\ f = "badRequest" THEN Return(r, "InvalidArgument") ELSE r

\* unmountStageTarget(sourcePath): unmount the staging path, keep the directory
unmountStageTarget(r, f) ==
    IF ~r.dir THEN r
    ELSE IF f = "srcChkErr" THEN Return(r, "err")
    ELSE IF r.smnt = NoDevice THEN r
    ELSE Unmount(r, f)

\* GetRootBlockByVolumeID, else getVolumeConfig: the device of the volume,
\* else the content of its record, else ""
RunvDeviceName(r) ==
    IF r.dev # NoDevice THEN r.dev
    ELSE IF r.rec # NoFile THEN r.rec
    ELSE NoDevice

\* the pod of a MixRunTimeMode deployment that runs under runv: the staging
\* mount is dropped and the device is handed over in a flag file in the target
PublishRunv(r, f) ==
    LET u == unmountStageTarget(r, f)
    IN IF u.code # "" THEN Return([u EXCEPT !.code = ""], "InvalidArgument")
       ELSE IF RunvDeviceName(u) = NoDevice THEN Return(u, "InvalidArgument")
       ELSE IF f = "ensureErr" \/ u.tk = "file" THEN Return(u, "InvalidArgument")
       ELSE IF f = "writeErr" THEN Return([u EXCEPT !.tk = "dir"], "InvalidArgument")
       ELSE Return([u EXCEPT !.tk = "dir", !.tc = "flag", !.kat = TRUE,
                             !.device = RunvDeviceName(u)], "OK")

\* disk only, GlobalConfigVar.RunTimeClass == MixRunTimeMode
PublishMixRunTime(r, runtime, f) ==
    IF ~(cfg.driver = "disk" /\ cfg.env = "kata") THEN r
    ELSE LET chk == TargetNotMountPoint(r, f = "tgtChkErr")
         IN IF chk.err # "nil" THEN Return(r, "Internal")
            ELSE IF ~chk.notMnt THEN Return(r, "OK")
            ELSE IF f = "runtimeErr" THEN Return(r, "Internal")
            ELSE IF runtime = "runv" THEN PublishRunv(r, f)
            ELSE r

\* sourcePath and the StagingTargetPath argument
PublishSource(r, f) ==
    LET s == IF IsBlockVolume(r.vol) THEN [r EXCEPT !.tpath = "blk"] ELSE r
    IN IF f = "noStaging" THEN Return(s, "InvalidArgument") ELSE s

\* mounter.EnsureBlock(targetPath): a directory is removed (when empty), then
\* the file is created
EnsureBlock(r, f) ==
    IF f = "ensureErr" THEN Return(r, "Internal")
    ELSE IF r.tk = "dir" /\ r.tc # "empty" THEN Return(r, "Internal")
    ELSE [r EXCEPT !.tk = "file"]

\* mounter.MountBlock(sourcePath, targetPath, "bind"); its error is returned
\* as it is
MountBlock(r, f) ==
    IF f = "bindErr" \/ ~r.blk THEN Return([r EXCEPT !.binds = @ + 1], "Error")
    ELSE [r EXCEPT !.binds = @ + 1, !.tm = Append(@, r.vol)]

\* the raw-block branch
PublishBlock(r, f) ==
    IF ~IsBlockVolume(r.vol) THEN r
    ELSE LET chk == TargetNotMountPoint(r, f = "tgtChkErr")
         IN IF chk.err = "other" THEN Return(r, "Internal")
            ELSE IF ~chk.notMnt THEN Return(r, "OK")
            ELSE Finish(Then(EnsureBlock(r, f), LAMBDA x : MountBlock(x, f)), "OK")

\* EnsureFolder(targetPath) / os.MkdirAll(targetPath)
PublishEnsureFolder(r, f) ==
    IF f = "ensureErr" \/ r.tk = "file" THEN Return(r, "Internal")
    ELSE [r EXCEPT !.tk = "dir"]

\* Fault-seeded variant of PublishTargetMounted: a mounted target is not noticed.
PublishTargetMounted_NoFastPath(r, f) ==
    IF f = "tgtChkErr" THEN [r EXCEPT !.code = "Internal"] ELSE r

\* the target is already mounted
PublishTargetMounted(r, f) ==
    LET chk == TargetNotMountPoint(r, f = "tgtChkErr")
    IN IF chk.err # "nil" THEN Return(r, "Internal")
       ELSE IF ~chk.notMnt THEN Return(r, "OK")
       ELSE r

\* mountDeviceToGlobal(capability, volumeContext, device, sourcePath)
mountDeviceToGlobal(r, f) ==
    IF f = "remountErr" THEN Return([r EXCEPT !.remount = TRUE], "Internal")
    ELSE [r EXCEPT !.remount = TRUE, !.dir = TRUE, !.smnt = r.device]

\* Fault-seeded variant of PublishRemount: the bind goes ahead without a device.
PublishRemount_NoDeviceCheck(r, f) ==
    LET chk == IsLikelyNotMountPoint(r, f = "srcChkErr")
        e == IF cfg.driver = "ens" THEN getVolumeDeviceName(r, f) ELSE r
    IN IF chk.err # "nil" THEN [r EXCEPT !.code = "Internal"]
       ELSE IF ~chk.notMnt THEN [e EXCEPT !.src = "mounted"]
       ELSE [e EXCEPT !.src = "notMounted"]

\* the staging path is found not mounted: mount the device of the volume on
\* it again (disk looks the device up here, ens has looked it up before)
PublishRemount(r, f) ==
    LET chk == IsLikelyNotMountPoint(r, f = "srcChkErr")
        e == IF cfg.driver = "ens" THEN getVolumeDeviceName(r, f) ELSE r
        n == [e EXCEPT !.src = "notMounted"]
    IN IF chk.err # "nil" THEN Return(r, "Internal")
       ELSE IF ~chk.notMnt THEN [e EXCEPT !.src = "mounted"]
       ELSE IF cfg.driver = "disk"
       THEN LET g == GetDeviceByVolumeID(n, f)
            IN IF g.code # "" THEN Return([g EXCEPT !.code = ""], "Internal")
               ELSE mountDeviceToGlobal(g, f)
       ELSE IF n.device = NoDevice THEN Return(n, "Internal")
       ELSE mountDeviceToGlobal(n, f)

\* disk: GetVolumeDeviceName(req.VolumeId)
GetVolumeDeviceName(r, f) ==
    IF f = "devNameErr" \/ r.dev = NoDevice THEN Return(r, "err")
    ELSE [r EXCEPT !.device = IF f = "staleDevice" THEN StalePath(r.dev) ELSE r.dev]

\* mount.GetDeviceNameFromMount(k8smounter, sourcePath); with "noMntInfo" the
\* mount table has no line for the path
GetDeviceNameFromMount(r, f) == IF f = "noMntInfo" THEN NoDevice ELSE r.smnt

\* k8smounter.Mount(expectName, sourcePath, fsType, "shared") when the mount
\* table names no device for the staging path
PublishSourceMount(r, f) ==
    IF GetDeviceNameFromMount(r, f) # NoDevice THEN r
    ELSE IF r.device = NoDevice THEN Return([r EXCEPT !.srcmount = TRUE], "Internal")
    ELSE [r EXCEPT !.srcmount = TRUE, !.smnt = r.device]

\* Fault-seeded variant of PublishVerify: only an empty backing device is refused.
PublishVerify_AnyDevice(r, f) ==
    LET e == IF cfg.driver = "disk" THEN GetVolumeDeviceName(r, f) ELSE r
    IN IF e.code # "" THEN [e EXCEPT !.code = "Internal"]
       ELSE IF f = "mntInfoErr" THEN [e EXCEPT !.code = "Internal"]
       ELSE LET m == PublishSourceMount(e, f)
            IN IF m.code # "" THEN m
               ELSE IF m.smnt = NoDevice THEN [m EXCEPT !.verify = "fail", !.code = "Internal"]
               ELSE [m EXCEPT !.verify = "ok"]

\* the device mounted on the staging path is the device of the volume
PublishVerify(r, f) ==
    LET e == IF cfg.driver = "disk" THEN GetVolumeDeviceName(r, f) ELSE r
    IN IF e.code # "" THEN Return([e EXCEPT !.code = ""], "Internal")
       ELSE IF f = "mntInfoErr" THEN Return(e, "Internal")
       ELSE LET m == PublishSourceMount(e, f)
                realDevice == m.smnt
            IN IF m.code # "" THEN m
               ELSE IF cfg.driver = "disk"
               THEN IF realDevice = Tmpfs THEN [m EXCEPT !.verify = "ok"]
                    ELSE IF realDevice = NoDevice \/ f = "statErr" \/ realDevice # m.device
                    THEN Return([m EXCEPT !.verify = "fail"], "Internal")
                    ELSE [m EXCEPT !.verify = "ok"]
               ELSE IF m.device # realDevice \/ realDevice = NoDevice
               THEN Return([m EXCEPT !.verify = "fail"], "Internal")
               ELSE [m EXCEPT !.verify = "ok"]

\* utils.SetVolumeIOLimit / podCgroup.ApplyConfig, then the bind mount of the
\* staging path on the target
PublishBind(r, f) ==
    IF f = "ioLimitErr" THEN Return(r, "Internal")
    ELSE IF f = "bindErr" THEN Return([r EXCEPT !.binds = @ + 1], "Internal")
    ELSE Return([r EXCEPT !.binds = @ + 1, !.tm = Append(@, r.vol)], "OK")

NodePublishVolume(v, t, runtime, f) ==
    LET r1 == PublishValidate(BeginPublish(v, t), f)
        r2 == Then(r1, LAMBDA r : PublishMixRunTime(r, runtime, f))
        r3 == Then(r2, LAMBDA r : PublishSource(r, f))
        r4 == Then(r3, LAMBDA r : PublishBlock(r, f))
        r5 == Then(r4, LAMBDA r : PublishEnsureFolder(r, f))
        r6 == Then(r5, LAMBDA r : PublishTargetMounted(r, f))
        r7 == Then(r6, LAMBDA r : PublishRemount(r, f))
        r8 == Then(r7, LAMBDA r : PublishVerify(r, f))
    IN Then(r8, LAMBDA r : PublishBind(r, f))

\* -------------------------------------------------------- NodeUnpublishVolume
\* The running Unpublish call: the target path and its state as the call has
\* changed it so far, the secondary global paths, and the steps taken in order
\* ("unmount", "remove", "dup" for unmountDuplicateMountPoint and
\* "dupUnmount" for the Unmount inside it).
BeginUnpublish(v, t) ==
    [code |-> "", vol |-> v, tgt |-> t, tk |-> target[t].kind, tc |-> target[t].content,
     tm |-> target[t].mnt, g2 |-> global2, steps |-> <<>>]

\* Fault-seeded variant of unmountDuplicateMountPoint: the mount references
\* are not looked at.
unmountDuplicateMountPoint_NoRefs(u, f) ==
    LET globalPath2 == GlobalPath2(u.tgt)
        c == [u EXCEPT !.steps = Append(@, "dup")]
    IN IF globalPath2 \notin DOMAIN c.g2 THEN c
       ELSE IF c.g2[globalPath2] = "absent" THEN c
       ELSE IF f = "dupChkErr" \/ c.g2[globalPath2] = "dir" THEN c
       ELSE IF f = "dupUnmountErr"
       THEN Return([c EXCEPT !.steps = Append(@, "dupUnmount")], "Internal")
       ELSE [c EXCEPT !.steps = Append(@, "dupUnmount"), !.g2[globalPath2] = "dir"]

\* ens: unmountDuplicateMountPoint(targetPath).  States of a secondary
\* path: "absent", "dir" (not mounted), "mounted" (no other mount refers to
\* it), "shared" (HasMountRefs).
unmountDuplicateMountPoint(u, f) ==
    LET globalPath2 == GlobalPath2(u.tgt)
        c == [u EXCEPT !.steps = Append(@, "dup")]
    IN IF globalPath2 \notin DOMAIN c.g2 THEN c
       ELSE IF c.g2[globalPath2] = "absent" THEN c
       ELSE IF f = "dupChkErr" \/ c.g2[globalPath2] = "dir" THEN c
       ELSE IF f = "refsErr" \/ c.g2[globalPath2] = "shared" THEN c
       ELSE IF f = "dupUnmountErr"
       THEN Return([c EXCEPT !.steps = Append(@, "dupUnmount")], "Internal")
       ELSE [c EXCEPT !.steps = Append(@, "dupUnmount"), !.g2[globalPath2] = "dir"]

\* the duplicate-mount cleanup as each driver calls it: disk has none
DuplicateCleanup(u, f) ==
    IF cfg.driver = "ens" THEN unmountDuplicateMountPoint(u, f) ELSE u

\* Step 1: the target path does not exist
UnpublishAbsent(u, f) ==
    IF u.tk # "none" THEN u
    ELSE Finish(DuplicateCleanup(u, f), "OK")

\* Fault-seeded variant of UnpublishNotMounted: a directory that is not
\* empty passes for an empty one.
UnpublishNotMounted_AnyDir(u, f) ==
    LET chk == TargetNotMountPoint(u, f = "tgtChkErr")
    IN IF chk.err # "nil" THEN [u EXCEPT !.code = "Internal"]
       ELSE IF ~chk.notMnt THEN u
       ELSE IF cfg.driver = "disk" /\ cfg.env = "kata" /\ u.tk = "dir" /\ u.tc = "flag"
       THEN IF f = "removeErr" THEN [u EXCEPT !.code = "InvalidArgument"]
            ELSE [u EXCEPT !.tc = "empty", !.code = "OK"]
       ELSE IF u.tk = "dir"
       THEN Finish(DuplicateCleanup(u, f), "OK")
       ELSE IF HasPrefix(u.tgt, BLOCKVOLUMEPREFIX)
       THEN IF f = "removeErr" THEN [u EXCEPT !.code = "Internal"]
            ELSE [u EXCEPT !.tk = "none", !.steps = Append(@, "remove"), !.code = "OK"]
       ELSE [u EXCEPT !.code = "Internal"]

\* Step 2: the target exists and is not a mount point.  IsMountPointRunv:
\* the directory holds the flag file of a runv pod; IsDirEmpty gives false
\* for a path that is not a directory.
UnpublishNotMounted(u, f) ==
    LET chk == TargetNotMountPoint(u, f = "tgtChkErr")
    IN IF chk.err # "nil" THEN Return(u, "Internal")
       ELSE IF ~chk.notMnt THEN u
       ELSE IF cfg.driver = "disk" /\ cfg.env = "kata" /\ u.tk = "dir" /\ u.tc = "flag"
       THEN IF f = "removeErr" THEN Return(u, "InvalidArgument")
            ELSE Return([u EXCEPT !.tc = "empty"], "OK")
       ELSE IF u.tk = "dir" /\ u.tc = "empty"
       THEN Finish(DuplicateCleanup(u, f), "OK")
       ELSE IF u.tk # "dir" /\ HasPrefix(u.tgt, BLOCKVOLUMEPREFIX)
       THEN IF f = "removeErr" THEN Return(u, "Internal")
            ELSE Return([u EXCEPT !.tk = "none", !.steps = Append(@, "remove")], "OK")
       ELSE Return(u, "Internal")

\* Step 3: k8smounter.Unmount(targetPath) takes the topmost mount off
UnpublishUnmount(u, f) ==
    IF f = "unmountErr" THEN Return([u EXCEPT !.steps = Append(@, "unmount")], "Internal")
    ELSE [u EXCEPT !.steps = Append(@, "unmount"), !.tm = SubSeq(@, 1, Len(@) - 1)]

\* os.Remove(targetPath): fails on a path that is still a mount point and on
\* a directory that is not empty
UnpublishRemove(u, f) ==
    LET c == [u EXCEPT !.steps = Append(@, "remove")]
    IN IF f = "removeErr" \/ c.tm # <<>> \/ (c.tk = "dir" /\ c.tc # "empty")
       THEN Return(c, "Internal")
       ELSE [c EXCEPT !.tk = "none", !.tc = "empty"]

NodeUnpublishVolume(v, t, f) ==
    LET u1 == UnpublishAbsent(BeginUnpublish(v, t), f)
        u2 == Then(u1, LAMBDA u : UnpublishNotMounted(u, f))
        u3 == Then(u2, LAMBDA u : UnpublishUnmount(u, f))
        u4 == Then(u3, LAMBDA u : UnpublishRemove(u, f))
    IN Finish(Then(u4, LAMBDA u : DuplicateCleanup(u, f)), "OK")

\* ------------------------------------------- the publish side of the lifecycle
\* A second specification: Stage and Unstage as above, with Publish and
\* Unpublish of the staged volume on the target paths and the events of the
\* host that matter to them.
Runtimes == {"runc", "runv"}

PublishFaults ==
    {"none", "noStaging", "tgtChkErr", "ensureErr", "bindErr"}
       \cup (IF cfg.driver = "disk" THEN {"badRequest"} ELSE {})
       \cup (IF cfg.driver = "disk" /\ cfg.env = "kata"
             THEN {"runtimeErr", "unmountErr", "writeErr"} ELSE {})
       \cup (IF IsBlockVolume("d1") THEN {}
             ELSE {"srcChkErr", "remountErr", "staleDevice", "mntInfoErr", "noMntInfo",
                   "ioLimitErr"}
                  \cup (IF cfg.driver = "disk" THEN {"devNameErr", "statErr"} ELSE {}))

UnpublishFaults ==
    {"none", "tgtChkErr", "unmountErr", "removeErr"}
       \cup (IF cfg.driver = "ens" THEN {"dupChkErr", "refsErr", "dupUnmountErr"} ELSE {})

PublishSummary(r, runtime, nominal) ==
    [op |-> "Publish", vol |-> r.vol, tgt |-> r.tgt, runtime |-> runtime,
     nominal |-> nominal, again |-> (last # Idle), code |-> r.code,
     src |-> r.src, lookup |-> r.lookup, remount |-> r.remount,
     srcmount |-> r.srcmount, binds |-> r.binds, steps |-> <<>>]

UnpublishSummary(u, nominal) ==
    [op |-> "Unpublish", vol |-> u.vol, tgt |-> u.tgt, runtime |-> "runc",
     nominal |-> nominal, again |-> (last # Idle), code |-> u.code,
     src |-> "unchecked", lookup |-> FALSE, remount |-> FALSE,
     srcmount |-> FALSE, binds |-> 0, steps |-> u.steps]

\* the target paths kubelet hands out for a volume; a raw-block volume is
\* also tried on a path outside the raw-block publish prefix
KubeletTargets(v) ==
    IF IsBlockVolume(v) THEN {BlockTarget("podA"), PodMount("podA")}
    ELSE {PodMount(pod) : pod \in Pods}

TargetOf(r) == [kind |-> r.tk, content |-> r.tc, mnt |-> r.tm]

Publish(v, t) ==
    /\ last = Idle \/ (last.op = "Publish" /\ last.vol = v /\ last.tgt = t /\ last.code = "OK")
    /\ \E runtime \in (IF last = Idle THEN Runtimes ELSE {last.runtime}) :
          LET r0 == NodePublishVolume(v, t, runtime, "none")
          IN \E f \in PublishFaults :
                LET r == NodePublishVolume(v, t, runtime, f)
                IN /\ Commit(r)
                   /\ target' = [target EXCEPT ![t] = TargetOf(r)]
                   /\ kata' = [kata EXCEPT ![v] = r.kat]
                   /\ last' = PublishSummary(r, runtime, r = r0)
    /\ UNCHANGED <<lazy, values, arrays, proc, providers, cfg, clock, global2>>

Unpublish(v, t) ==
    /\ last = Idle \/ (last.op = "Unpublish" /\ last.tgt = t /\ last.code = "OK")
    /\ LET u0 == NodeUnpublishVolume(v, t, "none")
       IN \E f \in UnpublishFaults :
             LET u == NodeUnpublishVolume(v, t, f)
             IN /\ target' = [target EXCEPT ![t] = TargetOf(u)]
                /\ global2' = u.g2
                /\ last' = UnpublishSummary(u, u = u0)
    /\ UNCHANGED <<lazy, values, arrays, proc, providers, cfg, clock, stageDir, stageMnt, broken, blkFile, blkMnt, kata,
                   devOf, bdf, record, archive, sysfs>>

\* kubelet stages the volume before it publishes it; in this specification
\* no external call of Stage or Unstage fails and the volume shows up as the
\* same device every time
PublishStage(v) ==
    /\ last = Idle
    /\ LET d == IF devOf[v] # NoDevice THEN devOf[v] ELSE CHOOSE x \in Devices : TRUE
           r == NodeStageVolume(v, "absent", d, "none")
       IN /\ Commit(r)
          /\ last' = Summary("Stage", r, "absent", TRUE)
    /\ UNCHANGED <<lazy, values, arrays, proc, providers, target, global2, cfg, clock, kata>>

\* kubelet unstages a volume after it has unpublished it everywhere
PublishUnstage(v) ==
    /\ last = Idle
    /\ \A t \in TargetPaths : target[t].mnt = <<>>
    /\ LET r == NodeUnstageVolume(v, "none")
       IN /\ Commit(r)
          /\ last' = Summary("Unstage", r, "absent", TRUE)
    /\ UNCHANGED <<lazy, values, arrays, proc, providers, target, global2, cfg, clock, kata>>

\* kubelet creates the target directory of a filesystem volume before it
\* calls NodePublishVolume (older releases do)
KubeletMkdirTarget(t) ==
    /\ last = Idle /\ target[t].kind = "none"
    /\ target' = [target EXCEPT ![t].kind = "dir"]
    /\ UNCHANGED <<lazy, values, arrays, proc, providers, global2, cfg, clock, stageDir, stageMnt, broken, blkFile, blkMnt, kata,
                   devOf, bdf, record, archive, sysfs, last>>

\* a workload leaves a file in a target directory that is not mounted
Litter(t) ==
    /\ last = Idle
    /\ target[t].kind = "dir" /\ target[t].mnt = <<>> /\ target[t].content = "empty"
    /\ target' = [target EXCEPT ![t].content = "other"]
    /\ UNCHANGED <<lazy, values, arrays, proc, providers, global2, cfg, clock, stageDir, stageMnt, broken, blkFile, blkMnt, kata,
                   devOf, bdf, record, archive, sysfs, last>>

\* the kubelet data disk of the host shows the staging mount a second time,
\* below the secondary global path
DuplicateMount(g) ==
    /\ last = Idle /\ cfg.driver = "ens"
    /\ global2[g] \in {"absent", "dir"}
    /\ \E v \in cfg.vols : stageMnt[v] # NoDevice
    /\ \E s \in {"mounted", "shared"} : global2' = [global2 EXCEPT ![g] = s]
    /\ UNCHANGED <<lazy, values, arrays, proc, providers, target, cfg, clock, stageDir, stageMnt, broken, blkFile, blkMnt, kata,
                   devOf, bdf, record, archive, sysfs, last>>

\* the host restarts: every mount is gone, files and directories stay
Reboot ==
    /\ last = Idle
    /\ \/ \E v \in cfg.vols : stageMnt[v] # NoDevice \/ blkMnt[v] # NoDevice
       \/ \E t \in TargetPaths : target[t].mnt # <<>>
    /\ stageMnt' = [v \in VolumeIDs |-> NoDevice]
    /\ blkMnt' = [v \in VolumeIDs |-> NoDevice]
    /\ broken' = [v \in VolumeIDs |-> FALSE]
    /\ target' = [t \in TargetPaths |-> [target[t] EXCEPT !.mnt = <<>>]]
    /\ global2' = [g \in DOMAIN global2 |->
                      IF global2[g] \in {"mounted", "shared"} THEN "dir" ELSE global2[g]]
    /\ UNCHANGED <<lazy, values, arrays, proc, providers, cfg, clock, stageDir, blkFile, kata, devOf, bdf, record, archive,
                   sysfs, last>>

InitPublish ==
    /\ cfg \in {c \in Configs : /\ c.vols = {"d1"} /\ c.vf = "none" /\ ~c.adc
                                /\ ~c.detachDisabled /\ c.env \in {"plain", "kata"}}
    /\ InitHost

NextPublish ==
    \/ \E v \in cfg.vols : PublishStage(v)
    \/ \E v \in cfg.vols : PublishUnstage(v)
    \/ \E v \in cfg.vols : \E t \in KubeletTargets(v) : Publish(v, t)
    \/ \E v \in cfg.vols : \E t \in KubeletTargets(v) : Unpublish(v, t)
    \/ Settle
    \/ \E v \in cfg.vols : ControllerAttach(v)
    \/ \E v \in cfg.vols : \E t \in KubeletTargets(v) \ {BlockTarget("podA")} :
          KubeletMkdirTarget(t)
    \/ \E v \in cfg.vols : \E t \in KubeletTargets(v) : Litter(t)
    \/ \E g \in GlobalPaths2 : DuplicateMount(g)
    \/ Reboot

SpecPublish == InitPublish /\ [][NextPublish]_vars

\* ------------------------------------------------ Publish from a stale staging mount
\* NodePublishVolume of filesystem volumes on nodes where the staging path
\* may carry a tmpfs and where the disk may be detached and attached again
\* under another device name while the staging mount stays.
\* The call is the one of Publish; the summary also keeps the device name
\* the call expected for the volume and the outcome of the comparison.
PublishGate(v, t) ==
    /\ last = Idle
    /\ \E runtime \in Runtimes : \E f \in PublishFaults :
          LET r == NodePublishVolume(v, t, runtime, f)
          IN /\ Commit(r)
             /\ target' = [target EXCEPT ![t] = TargetOf(r)]
             /\ kata' = [kata EXCEPT ![v] = r.kat]
             /\ last' = [expect |-> r.device, verify |-> r.verify]
                            @@ PublishSummary(r, runtime, f = "none")
    /\ UNCHANGED <<lazy, values, arrays, proc, providers, cfg, clock, global2>>

InitGate ==
    /\ cfg \in {c \in Configs : /\ c.vols = {"d1"} /\ c.vf = "none" /\ ~c.multi
                                /\ ~c.detachDisabled /\ c.cap["d1"] = "fs"
                                /\ c.env \in {"plain", "tmpfs"}}
    /\ InitHost

NextGate ==
    \/ \E v \in cfg.vols : PublishStage(v)
    \/ \E v \in cfg.vols : \E t \in KubeletTargets(v) : PublishGate(v, t)
    \/ Settle
    \/ \E v \in cfg.vols : KubeletMkdir(v)
    \/ \E v \in cfg.vols : ControllerAttach(v)
    \/ \E v \in cfg.vols : CloudDetach(v)
    \/ \E v \in cfg.vols : TmpfsMount(v)

SpecGate == InitGate /\ [][NextGate]_vars

\* ------------------------------------------------ saveVolumeConfig step by step
\* A third specification: one call of saveVolumeConfig taken one filesystem
\* step at a time, so that the call can be interrupted (the process is
\* killed, the host loses power) between any two of them.
\* proc[p].pc is the step the call is about to take, proc[p].old the live
\* record the call found when it started.
Savers == {1}
Truncated == "truncated"        \* the record file exists and holds no device path yet

\* the running-call record of a save in flight
SaveCall(p) == [Begin(proc[p].vol) EXCEPT !.device = proc[p].dev]

SaveStart(p, v, dev) ==
    /\ proc[p].pc = "idle"
    /\ proc' = [proc EXCEPT ![p] = [pc |-> "createDest", vol |-> v, dev |-> dev,
                                     old |-> record[v]]]
    /\ UNCHANGED <<lazy, values, arrays, providers, target, global2, cfg, clock, stageDir, stageMnt, broken,
                   blkFile, blkMnt, kata, devOf, bdf, record, archive, sysfs, last>>

\* utils.CreateDest(VolumeDir), utils.CreateDest(VolumeDirRemove)
SaveCreateDest(p) ==
    /\ proc[p].pc = "createDest"
    /\ proc' = [proc EXCEPT ![p].pc = "remove"]
    /\ UNCHANGED <<lazy, values, arrays, providers, target, global2, cfg, clock, stageDir, stageMnt, broken,
                   blkFile, blkMnt, kata, devOf, bdf, record, archive, sysfs, last>>

\* removeVolumeConfig(volumeID): os.Rename to the archive
SaveRemove(p) ==
    /\ proc[p].pc = "remove"
    /\ Commit(removeVolumeConfig(SaveCall(p), "none"))
    /\ proc' = [proc EXCEPT ![p].pc = "open"]
    /\ UNCHANGED <<lazy, values, arrays, providers, target, global2, cfg, clock, kata, last>>

\* os.WriteFile, first half: the file is opened with O_CREATE|O_TRUNC
SaveOpen(p) ==
    /\ proc[p].pc = "open"
    /\ record' = [record EXCEPT ![proc[p].vol] = Truncated]
    /\ proc' = [proc EXCEPT ![p].pc = "write"]
    /\ UNCHANGED <<lazy, values, arrays, providers, target, global2, cfg, clock, stageDir, stageMnt, broken,
                   blkFile, blkMnt, kata, devOf, bdf, archive, sysfs, last>>

\* os.WriteFile, second half: the device path is written and the file closed
SaveWrite(p) ==
    /\ proc[p].pc = "write"
    /\ Commit(WriteLive(SaveCall(p), "none"))
    /\ proc' = [proc EXCEPT ![p] = [pc |-> "idle"]]
    /\ UNCHANGED <<lazy, values, arrays, providers, target, global2, cfg, clock, kata, last>>

\* the call is interrupted before its next step
Interrupt(p) ==
    /\ proc[p].pc \notin {"idle", "interrupted"}
    /\ proc' = [proc EXCEPT ![p].pc = "interrupted"]
    /\ UNCHANGED <<lazy, values, arrays, providers, target, global2, cfg, clock, stageDir, stageMnt, broken,
                   blkFile, blkMnt, kata, devOf, bdf, record, archive, sysfs, last>>

\* the node server comes up again
Restart(p) ==
    /\ proc[p].pc = "interrupted"
    /\ proc' = [proc EXCEPT ![p] = [pc |-> "idle"]]
    /\ UNCHANGED <<lazy, values, arrays, providers, target, global2, cfg, clock, stageDir, stageMnt, broken,
                   blkFile, blkMnt, kata, devOf, bdf, record, archive, sysfs, last>>

InitSave ==
    /\ cfg \in {c \in Configs : /\ c.vols = VolumeIDs /\ c.driver = "ens" /\ ~c.adc
                                /\ c.env = "plain" /\ \A v \in VolumeIDs : c.cap[v] = "fs"}
    /\ clock = 0
    /\ stageDir = [v \in VolumeIDs |-> FALSE]
    /\ stageMnt = [v \in VolumeIDs |-> NoDevice]
    /\ broken = [v \in VolumeIDs |-> FALSE]
    /\ blkFile = [v \in VolumeIDs |-> FALSE]
    /\ blkMnt = [v \in VolumeIDs |-> NoDevice]
    /\ kata = [v \in VolumeIDs |-> FALSE]
    /\ devOf = [v \in VolumeIDs |-> NoDevice]
    /\ bdf = [v \in VolumeIDs |-> FALSE]
    /\ record = [v \in VolumeIDs |-> NoFile]
    /\ archive = {}
    /\ sysfs = {}
    /\ target = [t \in TargetPaths |-> NoTarget]
    /\ global2 = [g \in GlobalPaths2 |-> "absent"]
    /\ proc = [p \in Savers |-> [pc |-> "idle"]]
    /\ providers = <<>>
    /\ lazy = NewLazyInitProvider
    /\ values = {}
    /\ arrays = <<>>
    /\ last = Idle

NextSave ==
    \/ \E p \in Savers, v \in cfg.vols, dev \in Devices : SaveStart(p, v, dev)
    \/ \E p \in Savers : SaveCreateDest(p)
    \/ \E p \in Savers : SaveRemove(p)
    \/ \E p \in Savers : SaveOpen(p)
    \/ \E p \in Savers : SaveWrite(p)
    \/ \E p \in Savers : Interrupt(p)
    \/ \E p \in Savers : Restart(p)

SpecSave == InitSave /\ [][NextSave]_vars

\* ------------------------------------------------- overlapping Stage calls
\* A fourth specification: two NodeStageVolume calls for the same volume,
\* with the same arguments, run at the same time.  The handlers take no lock,
\* so the steps of the two calls interleave in any order; each step reads the
\* host as it is when the step is taken.  proc[p].pc is the step the call is
\* about to take (Returned when it has returned), proc[p].r its running-call
\* record.
Stagers == {1, 2}
Returned == 10

\* the running-call record of a call in flight, over the host as it is now
Rebase(r) ==
    [r EXCEPT !.dir = stageDir[r.vol], !.smnt = stageMnt[r.vol], !.brk = broken[r.vol],
              !.blk = blkFile[r.vol], !.bmnt = blkMnt[r.vol], !.dev = devOf[r.vol],
              !.bdf = bdf[r.vol], !.rec = record[r.vol], !.arch = archive,
              !.sysfs = sysfs]

\* step pc of NodeStageVolume, with no external call reporting an error
StageStep(pc, r, d) ==
    CASE pc = 1 -> StageValidate(r, "none")
      [] pc = 2 -> StageEnsure(r, "none")
      [] pc = 3 -> StageKata(r)
      [] pc = 4 -> StageMounted(r, "none")
      [] pc = 5 -> StageResolve(r, d, "none")
      [] pc = 6 -> StageVerify(r)
      [] pc = 7 -> StageSave(r, "none")
      [] pc = 8 -> StageSysConfig(r, "absent", "none")
      [] pc = 9 -> StageMount(r, "none")

RaceStep(p) ==
    /\ proc[p].pc < Returned
    /\ \E d \in DeviceChoices(proc[p].r.vol) :
          LET r == StageStep(proc[p].pc, Rebase(proc[p].r), d)
          IN /\ Commit(r)
             /\ proc' = [proc EXCEPT ![p] = [pc |-> IF r.code # "" THEN Returned
                                                    ELSE proc[p].pc + 1,
                                             r |-> r]]
    /\ UNCHANGED <<lazy, values, arrays, providers, target, global2, cfg, clock, kata, last>>

InitRace ==
    /\ cfg \in {c \in Configs : /\ c.vols = {"d1"} /\ c.cap["d1"] = "fs" /\ ~c.adc
                                /\ c.env = "plain" /\ c.vf = "none"
                                /\ ~c.multi /\ ~c.detachDisabled}
    /\ clock = 0
    /\ stageDir = [v \in VolumeIDs |-> FALSE]
    /\ stageMnt = [v \in VolumeIDs |-> NoDevice]
    /\ broken = [v \in VolumeIDs |-> FALSE]
    /\ blkFile = [v \in VolumeIDs |-> FALSE]
    /\ blkMnt = [v \in VolumeIDs |-> NoDevice]
    /\ kata = [v \in VolumeIDs |-> FALSE]
    /\ devOf = [v \in VolumeIDs |-> NoDevice]
    /\ bdf = [v \in VolumeIDs |-> FALSE]
    /\ record = [v \in VolumeIDs |-> NoFile]
    /\ archive = {}
    /\ sysfs = {}
    /\ target = [t \in TargetPaths |-> NoTarget]
    /\ global2 = [g \in GlobalPaths2 |-> "absent"]
    /\ proc = [p \in Stagers |-> [pc |-> 1, r |-> Begin("d1")]]
    /\ providers = <<>>
    /\ lazy = NewLazyInitProvider
    /\ values = {}
    /\ arrays = <<>>
    /\ last = Idle

NextRace == \E p \in Stagers : RaceStep(p)

SpecRace == InitRace /\ [][NextRace]_vars

\* ------------------------------------------------------------- Metadata.Get
\* A fifth specification: the provider chain of a Metadata grows as
\* providers are enabled, and Get is called on it.  A provider is what it
\* answers for each key: a value, ErrUnknownMetadataKey or another error.
MaxProviders == 3
MetadataKeys == {"RegionID", "ZoneID"}
Answers == {"value", "unknown", "error"}

NilError == [kind |-> "nil", from |-> 0]
ErrUnknownMetadataKey == [kind |-> "unknown", from |-> 0]
\* the error of provider p that is not ErrUnknownMetadataKey
ErrorOf(p) == [kind |-> "other", from |-> p.name]
\* the value provider p holds: tagged by the provider, 0 stands for ""
ValueOf(p) == p.name

\* MetadataProvider.Get(key): [v, err]
ProviderGet(p, key) ==
    CASE p.answer[key] = "value" -> [v |-> ValueOf(p), err |-> NilError]
      [] p.answer[key] = "unknown" -> [v |-> 0, err |-> ErrUnknownMetadataKey]
      [] p.answer[key] = "error" -> [v |-> 0, err |-> ErrorOf(p)]

\* utilerrors.NewAggregate(errors) of a list that is not empty
NewAggregate(errors) == [kind |-> "aggregate", errs |-> errors]

\* Fault-seeded variant of GetLoop: a value ends the loop only when no
\* later provider holds one.
RECURSIVE GetLoop_LastWins(_, _, _, _)
GetLoop_LastWins(ps, key, i, errors) ==
    IF i > Len(ps)
    THEN IF Len(errors) = 0
         THEN [v |-> 0, err |-> ErrUnknownMetadataKey, consulted |-> Len(ps)]
         ELSE [v |-> 0, err |-> NewAggregate(errors), consulted |-> Len(ps)]
    ELSE LET g == ProviderGet(ps[i], key)
             later == \E j \in (i + 1)..Len(ps) : ProviderGet(ps[j], key).err = NilError
         IN IF g.err = NilError /\ ~later
            THEN [v |-> g.v, err |-> NilError, consulted |-> i]
            ELSE IF g.err = NilError \/ g.err = ErrUnknownMetadataKey
            THEN GetLoop_LastWins(ps, key, i + 1, errors)
            ELSE GetLoop_LastWins(ps, key, i + 1, Append(errors, g.err))

\* Fault-seeded variant of GetLoop: ErrUnknownMetadataKey is collected too.
RECURSIVE GetLoop_CollectAll(_, _, _, _)
GetLoop_CollectAll(ps, key, i, errors) ==
    IF i > Len(ps)
    THEN IF Len(errors) = 0
         THEN [v |-> 0, err |-> ErrUnknownMetadataKey, consulted |-> Len(ps)]
         ELSE [v |-> 0, err |-> NewAggregate(errors), consulted |-> Len(ps)]
    ELSE LET g == ProviderGet(ps[i], key)
         IN IF g.err = NilError THEN [v |-> g.v, err |-> NilError, consulted |-> i]
            ELSE GetLoop_CollectAll(ps, key, i + 1, Append(errors, g.err))

\* the loop of Metadata.Get from provider i on; consulted counts the
\* providers whose Get was called
RECURSIVE GetLoop(_, _, _, _)
GetLoop(ps, key, i, errors) ==
    IF i > Len(ps)
    THEN IF Len(errors) = 0
         THEN [v |-> 0, err |-> ErrUnknownMetadataKey, consulted |-> Len(ps)]
         ELSE [v |-> 0, err |-> NewAggregate(errors), consulted |-> Len(ps)]
    ELSE LET g == ProviderGet(ps[i], key)
         IN IF g.err = NilError THEN [v |-> g.v, err |-> NilError, consulted |-> i]
            ELSE IF g.err = ErrUnknownMetadataKey
            THEN GetLoop(ps, key, i + 1, errors)
            ELSE GetLoop(ps, key, i + 1, Append(errors, g.err))

\* Metadata.Get(key)
MetadataGet(ps, key) == GetLoop(ps, key, 1, <<>>)

\* EnableEcs, EnableKubernetes, EnableOpenAPI: a provider is appended
EnableProvider ==
    /\ last = Idle /\ Len(providers) < MaxProviders
    /\ \E answer \in [MetadataKeys -> Answers] :
          providers' = Append(providers, [name |-> Len(providers) + 1, answer |-> answer])
    /\ UNCHANGED <<lazy, values, arrays, proc, target, global2, cfg, clock, stageDir, stageMnt, broken,
                   blkFile, blkMnt, kata, devOf, bdf, record, archive, sysfs, last>>

Get(key) ==
    /\ last = Idle
    /\ LET g == MetadataGet(providers, key)
       IN last' = [op |-> "Get", key |-> key, v |-> g.v, err |-> g.err,
                   consulted |-> g.consulted]
    /\ UNCHANGED <<lazy, values, arrays, proc, providers, target, global2, cfg, clock, stageDir, stageMnt,
                   broken, blkFile, blkMnt, kata, devOf, bdf, record, archive, sysfs>>

\* NewMetadata: the chain holds the environment provider
InitMetadata ==
    /\ cfg \in {c \in Configs : /\ c.vols = {"d1"} /\ c.cap["d1"] = "fs" /\ ~c.adc
                                /\ c.env = "plain" /\ c.vf = "none" /\ c.driver = "disk"
                                /\ ~c.multi /\ ~c.detachDisabled}
    /\ InitNode
    /\ providers \in {<<[name |-> 1, answer |-> answer]>> : answer \in [MetadataKeys -> Answers]}
    /\ lazy = NewLazyInitProvider
    /\ values = {}
    /\ arrays = <<>>

NextMetadata ==
    \/ EnableProvider
    \/ \E key \in MetadataKeys : Get(key)
    \/ Settle

SpecMetadata == InitMetadata /\ [][NextMetadata]_vars

\* ------------------------------------------------------ lazyInitProvider.Get
\* A further specification: the callers of Get on one lazyInitProvider, taken
\* one memory access at a time.  The first check of Get reads p.provider and
\* p.err without holding initMu, so these reads interleave with the writes
\* of the caller that holds it.  proc[c].pc is the access caller c is about
\* to make.  A provider or error is named by the number of the FetchFor
\* call that produced it; 0 stands for nil.
Callers == {1, 2}
MaxFetches == 3
FetchOutcomes == {"provider", "unknown", "error"}
LockedSection == {"inner", "fetch", "storeFetcher", "storeProvider", "storeErr", "unlock"}

\* Fault-seeded variant of Uninitialized: the check under the lock is gone.
Uninitialized_Unchecked(l) == TRUE

\* Fault-seeded variant of Uninitialized: a pinned error is not looked at.
Uninitialized_ProviderOnly(l) == l.provider = 0

\* p.provider == nil && p.err == nil
Uninitialized(l) == l.provider = 0 /\ l.err = 0

\* the history entry of a call that returns
LazyReturn(c, res, via) ==
    [op |-> "lazyGet", caller |-> c, key |-> proc[c].key, res |-> res, via |-> via,
     waited |-> proc[c].waited, fetched |-> proc[c].fetched]

LazyIdle == [pc |-> "idle"]

\* a caller enters Get(key)
LazyCall(c, key) ==
    /\ proc[c].pc = "idle"
    /\ proc' = [proc EXCEPT ![c] = [pc |-> "outerProvider", key |-> key, provider |-> 0,
                                     err |-> 0, waited |-> FALSE, fetched |-> FALSE]]
    /\ UNCHANGED <<lazy, last>>
    /\ UNCHANGED <<values, arrays, providers, target, global2, cfg, clock, stageDir, stageMnt,
                   broken, blkFile, blkMnt, kata, devOf, bdf, record, archive, sysfs>>

\* first check, left operand: p.provider == nil, read without the lock
LazyOuterProvider(c) ==
    /\ proc[c].pc = "outerProvider"
    /\ proc' = [proc EXCEPT ![c].pc = IF lazy.provider = 0 THEN "outerErr" ELSE "after"]
    /\ UNCHANGED <<lazy, last>>
    /\ UNCHANGED <<values, arrays, providers, target, global2, cfg, clock, stageDir, stageMnt,
                   broken, blkFile, blkMnt, kata, devOf, bdf, record, archive, sysfs>>

\* first check, right operand: p.err == nil, read without the lock
LazyOuterErr(c) ==
    /\ proc[c].pc = "outerErr"
    /\ proc' = [proc EXCEPT ![c].pc = IF lazy.err = 0 THEN "lock" ELSE "after"]
    /\ UNCHANGED <<lazy, last>>
    /\ UNCHANGED <<values, arrays, providers, target, global2, cfg, clock, stageDir, stageMnt,
                   broken, blkFile, blkMnt, kata, devOf, bdf, record, archive, sysfs>>

\* p.initMu.Lock(): blocks while another caller holds it
LazyLock(c) ==
    /\ proc[c].pc = "lock" /\ lazy.initMu = 0
    /\ lazy' = [lazy EXCEPT !.initMu = c]
    /\ proc' = [proc EXCEPT ![c].pc = "inner"]
    /\ UNCHANGED last
    /\ UNCHANGED <<values, arrays, providers, target, global2, cfg, clock, stageDir, stageMnt,
                   broken, blkFile, blkMnt, kata, devOf, bdf, record, archive, sysfs>>

\* second check, under the lock
LazyInner(c) ==
    /\ proc[c].pc = "inner"
    /\ proc' = [proc EXCEPT ![c].pc = IF Uninitialized(lazy) THEN "fetch" ELSE "unlock",
                             ![c].waited = ~Uninitialized(lazy)]
    /\ UNCHANGED <<lazy, last>>
    /\ UNCHANGED <<values, arrays, providers, target, global2, cfg, clock, stageDir, stageMnt,
                   broken, blkFile, blkMnt, kata, devOf, bdf, record, archive, sysfs>>

\* Fault-seeded variant of LazyFetch: the fetcher is dropped before the
\* outcome of FetchFor is looked at.
LazyFetch_FetcherDropped(c) ==
    /\ proc[c].pc = "fetch"
    /\ IF ~lazy.fetcher
       THEN /\ last' = LazyReturn(c, "panic", 0)
            /\ proc' = [proc EXCEPT ![c] = LazyIdle]
            /\ UNCHANGED lazy
       ELSE \E outcome \in FetchOutcomes :
            /\ outcome = "unknown" => lazy.fetches + 1 < MaxFetches
            /\ LET n == lazy.fetches + 1
               IN IF outcome = "unknown"
                  THEN /\ lazy' = [lazy EXCEPT !.fetches = n, !.initMu = 0, !.fetcher = FALSE]
                       /\ last' = [LazyReturn(c, "unknownKey", 0) EXCEPT !.fetched = TRUE]
                       /\ proc' = [proc EXCEPT ![c] = LazyIdle]
                  ELSE /\ lazy' = [lazy EXCEPT !.fetches = n, !.built = @ + 1]
                       /\ proc' = [proc EXCEPT ![c].pc = "storeFetcher",
                                                ![c].fetched = TRUE,
                                                ![c].provider = IF outcome = "provider" THEN n ELSE 0,
                                                ![c].err = IF outcome = "error" THEN n ELSE 0]
                       /\ UNCHANGED last
    /\ UNCHANGED <<values, arrays, providers, target, global2, cfg, clock, stageDir, stageMnt,
                   broken, blkFile, blkMnt, kata, devOf, bdf, record, archive, sysfs>>

\* p.fetcher.FetchFor(key); ErrUnknownMetadataKey unlocks and returns at once.
\* A nil fetcher is a nil dereference: the call panics with the lock held.
LazyFetch(c) ==
    /\ proc[c].pc = "fetch"
    /\ IF ~lazy.fetcher
       THEN /\ last' = LazyReturn(c, "panic", 0)
            /\ proc' = [proc EXCEPT ![c] = LazyIdle]
            /\ UNCHANGED lazy
       ELSE \E outcome \in FetchOutcomes :
            /\ outcome = "unknown" => lazy.fetches + 1 < MaxFetches
            /\ LET n == lazy.fetches + 1
               IN IF outcome = "unknown"
                  THEN /\ lazy' = [lazy EXCEPT !.fetches = n, !.initMu = 0]
                       /\ last' = [LazyReturn(c, "unknownKey", 0) EXCEPT !.fetched = TRUE]
                       /\ proc' = [proc EXCEPT ![c] = LazyIdle]
                  ELSE /\ lazy' = [lazy EXCEPT !.fetches = n, !.built = @ + 1]
                       /\ proc' = [proc EXCEPT ![c].pc = "storeFetcher",
                                                ![c].fetched = TRUE,
                                                ![c].provider = IF outcome = "provider" THEN n ELSE 0,
                                                ![c].err = IF outcome = "error" THEN n ELSE 0]
                       /\ UNCHANGED last
    /\ UNCHANGED <<values, arrays, providers, target, global2, cfg, clock, stageDir, stageMnt,
                   broken, blkFile, blkMnt, kata, devOf, bdf, record, archive, sysfs>>

\* p.fetcher = nil
LazyStoreFetcher(c) ==
    /\ proc[c].pc = "storeFetcher"
    /\ lazy' = [lazy EXCEPT !.fetcher = FALSE]
    /\ proc' = [proc EXCEPT ![c].pc = "storeProvider"]
    /\ UNCHANGED last
    /\ UNCHANGED <<values, arrays, providers, target, global2, cfg, clock, stageDir, stageMnt,
                   broken, blkFile, blkMnt, kata, devOf, bdf, record, archive, sysfs>>

\* p.provider = provider
LazyStoreProvider(c) ==
    /\ proc[c].pc = "storeProvider"
    /\ lazy' = [lazy EXCEPT !.provider = proc[c].provider]
    /\ proc' = [proc EXCEPT ![c].pc = "storeErr"]
    /\ UNCHANGED last
    /\ UNCHANGED <<values, arrays, providers, target, global2, cfg, clock, stageDir, stageMnt,
                   broken, blkFile, blkMnt, kata, devOf, bdf, record, archive, sysfs>>

\* p.err = err
LazyStoreErr(c) ==
    /\ proc[c].pc = "storeErr"
    /\ lazy' = [lazy EXCEPT !.err = proc[c].err]
    /\ proc' = [proc EXCEPT ![c].pc = "unlock"]
    /\ UNCHANGED last
    /\ UNCHANGED <<values, arrays, providers, target, global2, cfg, clock, stageDir, stageMnt,
                   broken, blkFile, blkMnt, kata, devOf, bdf, record, archive, sysfs>>

\* p.initMu.Unlock()
LazyUnlock(c) ==
    /\ proc[c].pc = "unlock"
    /\ lazy' = [lazy EXCEPT !.initMu = 0]
    /\ proc' = [proc EXCEPT ![c].pc = "after"]
    /\ UNCHANGED last
    /\ UNCHANGED <<values, arrays, providers, target, global2, cfg, clock, stageDir, stageMnt,
                   broken, blkFile, blkMnt, kata, devOf, bdf, record, archive, sysfs>>

\* if p.err != nil { return "", p.err }
LazyAfter(c) ==
    /\ proc[c].pc = "after"
    /\ IF lazy.err # 0
       THEN /\ last' = LazyReturn(c, "fetchError", lazy.err)
            /\ proc' = [proc EXCEPT ![c] = LazyIdle]
       ELSE /\ proc' = [proc EXCEPT ![c].pc = "get"]
            /\ UNCHANGED last
    /\ UNCHANGED lazy
    /\ UNCHANGED <<values, arrays, providers, target, global2, cfg, clock, stageDir, stageMnt,
                   broken, blkFile, blkMnt, kata, devOf, bdf, record, archive, sysfs>>

\* return p.provider.Get(key); a nil provider is a nil dereference
LazyProviderGet(c) ==
    /\ proc[c].pc = "get"
    /\ IF lazy.provider = 0
       THEN last' = LazyReturn(c, "panic", 0)
       ELSE \E answer \in Answers : last' = LazyReturn(c, answer, lazy.provider)
    /\ proc' = [proc EXCEPT ![c] = LazyIdle]
    /\ UNCHANGED lazy
    /\ UNCHANGED <<values, arrays, providers, target, global2, cfg, clock, stageDir, stageMnt,
                   broken, blkFile, blkMnt, kata, devOf, bdf, record, archive, sysfs>>

\* EnableEcs, EnableKubernetes, EnableOpenAPI: &lazyInitProvider{fetcher: ...}
InitLazy ==
    /\ cfg \in {c \in Configs : /\ c.vols = {"d1"} /\ c.cap["d1"] = "fs" /\ ~c.adc
                                /\ c.env = "plain" /\ c.vf = "none" /\ c.driver = "disk"
                                /\ ~c.multi /\ ~c.detachDisabled}
    /\ clock = 0
    /\ stageDir = [v \in VolumeIDs |-> FALSE]
    /\ stageMnt = [v \in VolumeIDs |-> NoDevice]
    /\ broken = [v \in VolumeIDs |-> FALSE]
    /\ blkFile = [v \in VolumeIDs |-> FALSE]
    /\ blkMnt = [v \in VolumeIDs |-> NoDevice]
    /\ kata = [v \in VolumeIDs |-> FALSE]
    /\ devOf = [v \in VolumeIDs |-> NoDevice]
    /\ bdf = [v \in VolumeIDs |-> FALSE]
    /\ record = [v \in VolumeIDs |-> NoFile]
    /\ archive = {}
    /\ sysfs = {}
    /\ target = [t \in TargetPaths |-> NoTarget]
    /\ global2 = [g \in GlobalPaths2 |-> "absent"]
    /\ proc = [c \in Callers |-> LazyIdle]
    /\ providers = <<>>
    /\ lazy = NewLazyInitProvider
    /\ values = {}
    /\ arrays = <<>>
    /\ last = Idle

NextLazy ==
    \/ \E c \in Callers, key \in MetadataKeys : LazyCall(c, key)
    \/ \E c \in Callers : LazyOuterProvider(c)
    \/ \E c \in Callers : LazyOuterErr(c)
    \/ \E c \in Callers : LazyLock(c)
    \/ \E c \in Callers : LazyInner(c)
    \/ \E c \in Callers : LazyFetch(c)
    \/ \E c \in Callers : LazyStoreFetcher(c)
    \/ \E c \in Callers : LazyStoreProvider(c)
    \/ \E c \in Callers : LazyStoreErr(c)
    \/ \E c \in Callers : LazyUnlock(c)
    \/ \E c \in Callers : LazyAfter(c)
    \/ \E c \in Callers : LazyProviderGet(c)

SpecLazy == InitLazy /\ [][NextLazy]_vars

\* ----------------------------------------------------- immutableProvider.Get
\* A further specification: the callers of Get on one immutableProvider.
\* providers[1] is the provider it wraps, whose answer for a key changes
\* over time; values is the map of the wrapper.  The whole body of Get runs
\* with p.mu held, so a call is one step once it has the lock.
SourceValues == {"v1", "v2"}
SourceAnswers == SourceValues \cup {"unknown", "error"}

\* Fault-seeded variant of Lookup: the map is never hit.
Lookup_Miss(vals, key) == {}

\* v, ok := p.values[key]: the entries of the map for the key
Lookup(vals, key) == {e \in vals : e.key = key}

\* p.values[key] = v
Store(vals, key, v) == {e \in vals : e.key # key} \cup {[key |-> key, v |-> v]}

\* a caller enters Get(key) and asks for p.mu
ImmutableCall(c, key) ==
    /\ proc[c].pc = "idle"
    /\ proc' = [proc EXCEPT ![c] = [pc |-> "lock", key |-> key]]
    /\ UNCHANGED <<values, providers, last>>
    /\ UNCHANGED <<lazy, arrays, target, global2, cfg, clock, stageDir, stageMnt,
                   broken, blkFile, blkMnt, kata, devOf, bdf, record, archive, sysfs>>

\* immutableProvider.Get from Lock to the deferred Unlock
ImmutableGet(c) ==
    /\ proc[c].pc = "lock"
    /\ LET key == proc[c].key
           hit == Lookup(values, key)
           answer == providers[1].answer[key]
           ret(res, v, called) == [op |-> "immutableGet", caller |-> c, key |-> key,
                                   res |-> res, v |-> v, called |-> called,
                                   logged |-> called /\ res = "value"]
       IN IF hit # {}
          THEN /\ last' = ret("value", (CHOOSE e \in hit : TRUE).v, FALSE)
               /\ UNCHANGED values
          ELSE IF answer \notin SourceValues
          THEN /\ last' = ret(answer, "", TRUE)
               /\ UNCHANGED values
          ELSE /\ last' = ret("value", answer, TRUE)
               /\ values' = Store(values, key, answer)
    /\ proc' = [proc EXCEPT ![c] = [pc |-> "idle"]]
    /\ UNCHANGED providers
    /\ UNCHANGED <<lazy, arrays, target, global2, cfg, clock, stageDir, stageMnt,
                   broken, blkFile, blkMnt, kata, devOf, bdf, record, archive, sysfs>>

\* what the wrapped provider would answer for a key changes
SourceChanges(key, answer) ==
    /\ providers[1].answer[key] # answer
    /\ providers' = [providers EXCEPT ![1].answer[key] = answer]
    /\ UNCHANGED <<values, proc, last>>
    /\ UNCHANGED <<lazy, arrays, target, global2, cfg, clock, stageDir, stageMnt,
                   broken, blkFile, blkMnt, kata, devOf, bdf, record, archive, sysfs>>

\* newImmutableProvider(provider, name): the map is empty
InitImmutable ==
    /\ cfg \in {c \in Configs : /\ c.vols = {"d1"} /\ c.cap["d1"] = "fs" /\ ~c.adc
                                /\ c.env = "plain" /\ c.vf = "none" /\ c.driver = "disk"
                                /\ ~c.multi /\ ~c.detachDisabled}
    /\ clock = 0
    /\ stageDir = [v \in VolumeIDs |-> FALSE]
    /\ stageMnt = [v \in VolumeIDs |-> NoDevice]
    /\ broken = [v \in VolumeIDs |-> FALSE]
    /\ blkFile = [v \in VolumeIDs |-> FALSE]
    /\ blkMnt = [v \in VolumeIDs |-> NoDevice]
    /\ kata = [v \in VolumeIDs |-> FALSE]
    /\ devOf = [v \in VolumeIDs |-> NoDevice]
    /\ bdf = [v \in VolumeIDs |-> FALSE]
    /\ record = [v \in VolumeIDs |-> NoFile]
    /\ archive = {}
    /\ sysfs = {}
    /\ target = [t \in TargetPaths |-> NoTarget]
    /\ global2 = [g \in GlobalPaths2 |-> "absent"]
    /\ proc = [c \in Callers |-> [pc |-> "idle"]]
    /\ providers \in {<<[name |-> 1, answer |-> answer]>> :
                          answer \in [MetadataKeys -> SourceAnswers]}
    /\ lazy = NewLazyInitProvider
    /\ values = {}
    /\ arrays = <<>>
    /\ last = Idle

NextImmutable ==
    \/ \E c \in Callers, key \in MetadataKeys : ImmutableCall(c, key)
    \/ \E c \in Callers : ImmutableGet(c)
    \/ \E key \in MetadataKeys, answer \in SourceAnswers : SourceChanges(key, answer)

SpecImmutable == InitImmutable /\ [][NextImmutable]_vars

\* ------------------------------------------------ Metadata.Get over caching providers
\* A chain of two caching providers.  values[i] is the map of provider i,
\* providers[i] what its wrapped provider would answer now; the wrapped
\* provider of the first one changes its answers over time.
NotAsked == [v |-> 0, err |-> [kind |-> "none", from |-> 0]]

\* immutableProvider i as Metadata.Get sees it: a key in the map is answered
\* from the map, any other key by the wrapped provider
CachingProvider(i) ==
    [name |-> providers[i].name,
     answer |-> [k \in MetadataKeys |->
                    IF Lookup(values[i], k) # {} THEN "value" ELSE providers[i].answer[k]]]

\* what the latest Metadata.Get(key) returned, for every key
LatestGet(key) == IF last = Idle THEN NotAsked ELSE last.res[key]

\* Metadata.Get(key): the provider that yields the value stores it
StableGet(key) ==
    /\ LET ps == [i \in 1..Len(providers) |-> CachingProvider(i)]
           g == MetadataGet(ps, key)
       IN /\ values' = [i \in 1..Len(providers) |->
                           IF g.err = NilError /\ i = g.consulted
                           THEN Store(values[i], key, g.v) ELSE values[i]]
          /\ last' = [op |-> "Get", key |-> key, consulted |-> g.consulted,
                      res |-> [k \in MetadataKeys |->
                                  IF k = key THEN [v |-> g.v, err |-> g.err]
                                  ELSE LatestGet(k)]]
    /\ UNCHANGED <<lazy, arrays, proc, providers, target, global2, cfg, clock, stageDir, stageMnt,
                   broken, blkFile, blkMnt, kata, devOf, bdf, record, archive, sysfs>>

InitStable ==
    /\ cfg \in {c \in Configs : /\ c.vols = {"d1"} /\ c.cap["d1"] = "fs" /\ ~c.adc
                                /\ c.env = "plain" /\ c.vf = "none" /\ c.driver = "disk"
                                /\ ~c.multi /\ ~c.detachDisabled}
    /\ InitNode
    /\ providers \in {<<[name |-> 1, answer |-> a1], [name |-> 2, answer |-> a2]>> :
                          a1 \in [MetadataKeys -> Answers], a2 \in [MetadataKeys -> Answers]}
    /\ lazy = NewLazyInitProvider
    /\ values = <<{}, {}>>
    /\ arrays = <<>>

NextStable ==
    \/ \E key \in MetadataKeys : StableGet(key)
    \/ \E key \in MetadataKeys, answer \in Answers : SourceChanges(key, answer)

SpecStable == InitStable /\ [][NextStable]_vars

\* ------------------------------------------------------------ the Enable calls
\* A further specification: the chain as the Go slice it is.  Here providers
\* is the slice header [arr, len, cap] of Metadata.providers and arrays[a]
\* the backing array at address a, so that the provider list an OpenAPI
\* fetcher keeps (mPre.providers, a copy of the header) shares its backing
\* array with the chain.  A provider is named by its place in the chain.
MaxChain == 7
NoProvider == [name |-> 0]
NoSlice == [arr |-> 0, len |-> 0, cap |-> 0]
\* what a provider added by an Enable call answers, the same for every
\* key: any answer for the first one added, unknown key for the others
LaterAnswers ==
    {[key \in MetadataKeys |-> answer] :
        answer \in (IF providers.len < 2 THEN Answers ELSE {"unknown"})}

\* the elements a slice header shows
View(arrs, sl) == IF sl.arr = 0 THEN <<>> ELSE SubSeq(arrs[sl.arr], 1, sl.len)
\* m.providers as a sequence
Chain == View(arrays, providers)

\* append: the capacity of the array allocated when the old one is full
GrowCap(cap) == 2 * cap

\* Fault-seeded variant of WriteIndex: the last element is overwritten.
WriteIndex_Overwrite(sl) == sl.len

\* append: the index the new element is written at
WriteIndex(sl) == sl.len + 1

\* append(sl, p): the header returned
AppendHeader(arrs, sl) ==
    IF sl.len < sl.cap THEN [sl EXCEPT !.len = @ + 1]
    ELSE [arr |-> Len(arrs) + 1, len |-> sl.len + 1, cap |-> GrowCap(sl.cap)]

\* append(sl, p): the arrays afterwards; in place when there is room, else a
\* new array holding a copy of the elements
AppendArrays(arrs, sl, p) ==
    IF sl.len < sl.cap THEN [arrs EXCEPT ![sl.arr][WriteIndex(sl)] = p]
    ELSE Append(arrs, [i \in 1..GrowCap(sl.cap) |->
                          IF i = WriteIndex(sl) THEN p
                          ELSE IF i <= sl.len THEN arrs[sl.arr][i] ELSE NoProvider])

\* Fault-seeded variant of Snapshot: the list is taken after the append.
Snapshot_Late(before, after) == after

\* mPre := Metadata{providers: m.providers}, taken before the append
Snapshot(before, after) == before

\* m.providers = append(m.providers, p)
AppendProvider(kind, answer, pre) ==
    LET p == [name |-> providers.len + 1, kind |-> kind, answer |-> answer, pre |-> pre,
              before |-> IF kind = "openapi" THEN Chain ELSE <<>>]
    IN /\ providers' = AppendHeader(arrays, providers)
       /\ arrays' = AppendArrays(arrays, providers, p)
       /\ last' = [op |-> "Enable", kind |-> kind, appended |-> TRUE]

\* the Enable call returns without adding a provider
NotAppended(kind) ==
    /\ last' = [op |-> "Enable", kind |-> kind, appended |-> FALSE]
    /\ UNCHANGED <<providers, arrays>>

\* Metadata.EnableEcs: nothing is added when DISABLE_ECS_ENV is set
EnableEcs ==
    /\ last = Idle /\ providers.len < MaxChain
    /\ \E disabled \in BOOLEAN :
          IF disabled THEN NotAppended("ecs")
          ELSE \E answer \in LaterAnswers : AppendProvider("ecs", answer, NoSlice)
    /\ UNCHANGED <<lazy, values, proc, target, global2, cfg, clock, stageDir, stageMnt,
                   broken, blkFile, blkMnt, kata, devOf, bdf, record, archive, sysfs>>

\* Metadata.EnableKubernetes: nothing is added when KUBE_NODE_NAME is empty
EnableKubernetes ==
    /\ last = Idle /\ providers.len < MaxChain
    /\ \E nodeName \in {"", "node"} :
          IF nodeName = "" THEN NotAppended("k8s")
          ELSE \E answer \in LaterAnswers : AppendProvider("k8s", answer, NoSlice)
    /\ UNCHANGED <<lazy, values, proc, target, global2, cfg, clock, stageDir, stageMnt,
                   broken, blkFile, blkMnt, kata, devOf, bdf, record, archive, sysfs>>

\* Metadata.EnableOpenAPI
EnableOpenAPI ==
    /\ last = Idle /\ providers.len < MaxChain
    /\ \E answer \in LaterAnswers :
          AppendProvider("openapi", answer, Snapshot(providers, AppendHeader(arrays, providers)))
    /\ UNCHANGED <<lazy, values, proc, target, global2, cfg, clock, stageDir, stageMnt,
                   broken, blkFile, blkMnt, kata, devOf, bdf, record, archive, sysfs>>

\* Metadata.Get(key) on the chain
ChainGet(key) ==
    /\ last = Idle
    /\ LET g == MetadataGet(Chain, key)
       IN last' = [op |-> "Get", key |-> key, v |-> g.v, err |-> g.err,
                   consulted |-> g.consulted]
    /\ UNCHANGED <<providers, arrays>>
    /\ UNCHANGED <<lazy, values, proc, target, global2, cfg, clock, stageDir, stageMnt,
                   broken, blkFile, blkMnt, kata, devOf, bdf, record, archive, sysfs>>

\* the OpenAPI fetcher at place i resolves a prerequisite key: mPre.Get(key)
PreGet(i, key) ==
    /\ last = Idle /\ i \in 1..providers.len /\ Chain[i].kind = "openapi"
    /\ LET pre == View(arrays, Chain[i].pre)
           g == MetadataGet(pre, key)
       IN last' = [op |-> "preGet", of |-> i, key |-> key, v |-> g.v, err |-> g.err,
                   consulted |-> {pre[j].name : j \in 1..g.consulted}]
    /\ UNCHANGED <<providers, arrays>>
    /\ UNCHANGED <<lazy, values, proc, target, global2, cfg, clock, stageDir, stageMnt,
                   broken, blkFile, blkMnt, kata, devOf, bdf, record, archive, sysfs>>

\* NewMetadata: []MetadataProvider{newImmutableProvider(&ENVMetadata{}, "env")}
InitChain ==
    /\ cfg \in {c \in Configs : /\ c.vols = {"d1"} /\ c.cap["d1"] = "fs" /\ ~c.adc
                                /\ c.env = "plain" /\ c.vf = "none" /\ c.driver = "disk"
                                /\ ~c.multi /\ ~c.detachDisabled}
    /\ InitNode
    /\ lazy = NewLazyInitProvider
    /\ values = {}
    /\ providers = [arr |-> 1, len |-> 1, cap |-> 1]
    /\ arrays \in {<<(<<[name |-> 1, kind |-> "env", answer |-> answer, pre |-> NoSlice,
                          before |-> <<>>]>>)>> : answer \in [MetadataKeys -> Answers]}

NextChain ==
    \/ EnableEcs
    \/ EnableKubernetes
    \/ EnableOpenAPI
    \/ \E key \in MetadataKeys : ChainGet(key)
    \/ \E i \in 1..MaxChain, key \in MetadataKeys : PreGet(i, key)
    \/ Settle

SpecChain == InitChain /\ [][NextChain]_vars

\* ------------------------------------------------ the locks of the resolver
\* Concurrent Metadata.Get calls on a finished chain.  providers is the
\* chain as a sequence of kinds; lazy[i] holds, for the provider at place i,
\* whether it is constructed ("uninit", "ok", "err"), the holder of its
\* initMu and the holder of the mu of its caching layer (0: free).  proc[c]
\* is the stack of the Metadata.Get calls caller c is in: the outer one and,
\* inside FetchFor of an OpenAPI provider, the ones on its mPre.  A frame is
\* [i, n, pc]: the place of the provider being asked, the length of the
\* provider list, the position in that provider's Get.
MaxLive == 2

\* the kinds of provider the Enable calls add
LazyKinds == {"lazy", "openapi"}

\* the chains NewMetadata and up to MaxLive Enable calls build
LiveChains ==
    UNION {{<<"env">> \o t : t \in [1..n -> LazyKinds]} : n \in 0..MaxLive}

\* Fault-seeded variant of PreLen: the list is taken after the append.
PreLen_Self(i) == i

\* mPre.providers of the OpenAPI provider at place i: the providers before it
PreLen(i) == i - 1

LiveRest ==
    <<values, arrays, providers, target, global2, cfg, clock, stageDir, stageMnt, broken,
      blkFile, blkMnt, kata, devOf, bdf, record, archive, sysfs, last>>

Top(c) == proc[c][Len(proc[c])]
SetTop(c, fr) == [proc EXCEPT ![c][Len(proc[c])] = fr]
At(c, pc) == proc[c] # <<>> /\ Top(c).pc = pc
\* for _, p := range m.providers: on to the next provider
NextProvider(fr) == [fr EXCEPT !.i = @ + 1, !.pc = "ask"]
\* Metadata.Get returns to its caller
Pop(c) == [proc EXCEPT ![c] = SubSeq(@, 1, Len(@) - 1)]

\* a caller enters Metadata.Get
LiveCall(c) ==
    /\ proc[c] = <<>>
    /\ proc' = [proc EXCEPT ![c] = <<[i |-> 1, n |-> Len(providers), pc |-> "ask"]>>]
    /\ UNCHANGED lazy /\ UNCHANGED LiveRest

\* the loop of Metadata.Get: p.Get(key) of the next provider, or the return
\* after the last one
LiveAsk(c) ==
    /\ At(c, "ask")
    /\ LET fr == Top(c)
       IN proc' = IF fr.i > fr.n THEN Pop(c)
                  ELSE IF providers[fr.i] = "env" THEN SetTop(c, [fr EXCEPT !.pc = "muLock"])
                  ELSE SetTop(c, [fr EXCEPT !.pc = "outer"])
    /\ UNCHANGED lazy /\ UNCHANGED LiveRest

\* lazyInitProvider.Get: the first check, without the lock.  The read races
\* with the stores under initMu, so it may still see both fields nil.
LiveOuter(c) ==
    /\ At(c, "outer")
    /\ LET fr == Top(c)
       IN \E seen \in {lazy[fr.i].state, "uninit"} :
            proc' = SetTop(c, [fr EXCEPT !.pc = IF seen = "uninit"
                                                 THEN "initLock" ELSE "after"])
    /\ UNCHANGED lazy /\ UNCHANGED LiveRest

\* p.initMu.Lock()
LiveInitLock(c) ==
    /\ At(c, "initLock")
    /\ LET fr == Top(c)
       IN /\ lazy[fr.i].initMu = 0
          /\ lazy' = [lazy EXCEPT ![fr.i].initMu = c]
          /\ proc' = SetTop(c, [fr EXCEPT !.pc = "inner"])
    /\ UNCHANGED LiveRest

\* the second check, under the lock
LiveInner(c) ==
    /\ At(c, "inner")
    /\ LET fr == Top(c)
       IN proc' = SetTop(c, [fr EXCEPT !.pc = IF lazy[fr.i].state = "uninit"
                                               THEN "fetch" ELSE "unlock"])
    /\ UNCHANGED lazy /\ UNCHANGED LiveRest

\* what FetchFor has returned is acted on: ErrUnknownMetadataKey unlocks and
\* returns, anything else is stored
Fetched(c, fr, outcome) ==
    IF outcome = "unknown"
    THEN /\ lazy' = [lazy EXCEPT ![fr.i].initMu = 0]
         /\ proc' = SetTop(c, NextProvider(fr))
    ELSE /\ lazy' = [lazy EXCEPT ![fr.i].state = IF outcome = "provider" THEN "ok" ELSE "err"]
         /\ proc' = SetTop(c, [fr EXCEPT !.pc = "unlock"])

\* p.fetcher.FetchFor(key) with the lock held.  The fetcher of an OpenAPI
\* provider may first resolve a key on its mPre: a Metadata.Get on the
\* providers before it.
LiveFetch(c) ==
    /\ At(c, "fetch")
    /\ LET fr == Top(c)
       IN \/ \E outcome \in FetchOutcomes : Fetched(c, fr, outcome)
          \/ /\ providers[fr.i] = "openapi"
             /\ proc' = [proc EXCEPT ![c] =
                            Append(SetTop(c, [fr EXCEPT !.pc = "fetched"])[c],
                                   [i |-> 1, n |-> PreLen(fr.i), pc |-> "ask"])]
             /\ UNCHANGED lazy
    /\ UNCHANGED LiveRest

\* mPre.Get has returned to FetchFor, which returns
LiveFetched(c) ==
    /\ At(c, "fetched")
    /\ \E outcome \in FetchOutcomes : Fetched(c, Top(c), outcome)
    /\ UNCHANGED LiveRest

\* p.initMu.Unlock()
LiveUnlock(c) ==
    /\ At(c, "unlock")
    /\ LET fr == Top(c)
       IN /\ lazy' = [lazy EXCEPT ![fr.i].initMu = 0]
          /\ proc' = SetTop(c, [fr EXCEPT !.pc = "after"])
    /\ UNCHANGED LiveRest

\* if p.err != nil return it, else p.provider.Get(key): the caching layer
LiveAfter(c) ==
    /\ At(c, "after")
    /\ LET fr == Top(c)
       IN proc' = SetTop(c, IF lazy[fr.i].state = "err" THEN NextProvider(fr)
                            ELSE [fr EXCEPT !.pc = "muLock"])
    /\ UNCHANGED lazy /\ UNCHANGED LiveRest

\* immutableProvider.Get: p.mu.Lock()
LiveMuLock(c) ==
    /\ At(c, "muLock")
    /\ LET fr == Top(c)
       IN /\ lazy[fr.i].mu = 0
          /\ lazy' = [lazy EXCEPT ![fr.i].mu = c]
          /\ proc' = SetTop(c, [fr EXCEPT !.pc = "muBody"])
    /\ UNCHANGED LiveRest

\* immutableProvider.Get from the map lookup to the deferred Unlock; a value
\* ends Metadata.Get, an error lets its loop go on
LiveMuBody(c) ==
    /\ At(c, "muBody")
    /\ LET fr == Top(c)
       IN /\ lazy' = [lazy EXCEPT ![fr.i].mu = 0]
          /\ \E answer \in Answers :
                proc' = IF answer = "value" THEN Pop(c) ELSE SetTop(c, NextProvider(fr))
    /\ UNCHANGED LiveRest

\* the steps of a call in flight
LiveStep(c) ==
    \/ LiveAsk(c) \/ LiveOuter(c) \/ LiveInitLock(c) \/ LiveInner(c) \/ LiveFetch(c)
    \/ LiveFetched(c) \/ LiveUnlock(c) \/ LiveAfter(c) \/ LiveMuLock(c) \/ LiveMuBody(c)

InitLive ==
    /\ cfg \in {c \in Configs : /\ c.vols = {"d1"} /\ c.cap["d1"] = "fs" /\ ~c.adc
                                /\ c.env = "plain" /\ c.vf = "none" /\ c.driver = "disk"
                                /\ ~c.multi /\ ~c.detachDisabled}
    /\ clock = 0
    /\ stageDir = [v \in VolumeIDs |-> FALSE]
    /\ stageMnt = [v \in VolumeIDs |-> NoDevice]
    /\ broken = [v \in VolumeIDs |-> FALSE]
    /\ blkFile = [v \in VolumeIDs |-> FALSE]
    /\ blkMnt = [v \in VolumeIDs |-> NoDevice]
    /\ kata = [v \in VolumeIDs |-> FALSE]
    /\ devOf = [v \in VolumeIDs |-> NoDevice]
    /\ bdf = [v \in VolumeIDs |-> FALSE]
    /\ record = [v \in VolumeIDs |-> NoFile]
    /\ archive = {}
    /\ sysfs = {}
    /\ target = [t \in TargetPaths |-> NoTarget]
    /\ global2 = [g \in GlobalPaths2 |-> "absent"]
    /\ values = {}
    /\ arrays = <<>>
    /\ last = Idle
    /\ providers \in LiveChains
    /\ lazy = [i \in 1..Len(providers) |->
                 [state |-> IF providers[i] = "env" THEN "ok" ELSE "uninit",
                  initMu |-> 0, mu |-> 0]]
    /\ proc = [c \in Callers |-> <<>>]

NextLive ==
    \/ \E c \in Callers : LiveCall(c)
    \/ \E c \in Callers : LiveAsk(c)
    \/ \E c \in Callers : LiveOuter(c)
    \/ \E c \in Callers : LiveInitLock(c)
    \/ \E c \in Callers : LiveInner(c)
    \/ \E c \in Callers : LiveFetch(c)
    \/ \E c \in Callers : LiveFetched(c)
    \/ \E c \in Callers : LiveUnlock(c)
    \/ \E c \in Callers : LiveAfter(c)
    \/ \E c \in Callers : LiveMuLock(c)
    \/ \E c \in Callers : LiveMuBody(c)

\* Goroutines are scheduled preemptively and a sync.Mutex hands the lock to
\* a waiter that has waited long (starvation mode): a call whose next step
\* is possible again and again takes it.
SpecLive == InitLive /\ [][NextLive]_vars /\ \A c \in Callers : SF_vars(LiveStep(c))

\* --------------------------------------------------------- NodeExpandVolume
\* A further specification: NodeExpandVolume as a function of its request
\* and of what the calls it makes answer.  Byte counts are small integers;
\* the output of growpart is the set of the phrases the code looks for.
MaxBytes == 2
NoChange == "NOCHANGE"
AtMaximumSize == {"it cannot be grown", "could only be grown by"}
GrowpartOutputs == SUBSET ({NoChange} \cup AtMaximumSize)
ExpandAnswers ==
    [rund : {"no", "ok", "err"},              \* checkRundVolumeExpand
     dev : {"ok", "notexist", "err"},         \* GetVolumeDeviceName
     part : {"err", "none", "index"},         \* GetDeviceRootAndPartitionIndex
     growErr : BOOLEAN, output : GrowpartOutputs,  \* growpart
     resize : {"ok", "notok", "err"},         \* ResizeFs.Resize
     devcap : 0..MaxBytes]                    \* getBlockDeviceCapacity(devicePath)

\* strings.Contains
Contains(s, sub) == \E i \in 1..(Len(s) - Len(sub) + 1) : SubSeq(s, i, i + Len(sub) - 1) = sub

\* the running call: request, answers, and code "" while it has not returned;
\* capacity is CapacityBytes of the response, steps the commands it ran
BeginExpand(v, path, bytes, e) ==
    [vol |-> v, path |-> path, bytes |-> bytes, e |-> e, code |-> "", capacity |-> 0,
     steps |-> <<>>]

ExpandBlockVolume(r) ==
    IF Contains(r.path, BLOCKVOLUMEPREFIX) THEN [r EXCEPT !.code = "OK"] ELSE r

ExpandRund(r) ==
    CASE r.e.rund = "ok" -> [r EXCEPT !.code = "OK"]
      [] r.e.rund = "err" -> [r EXCEPT !.code = "InvalidArgument"]
      [] OTHER -> r

ExpandDeviceName(r) ==
    CASE r.e.dev = "notexist" -> [r EXCEPT !.code = "NotFound"]
      [] r.e.dev = "err" -> [r EXCEPT !.code = "Internal"]
      [] OTHER -> r

\* the growpart failure the call tolerates
GrowpartNoNeed(output) == NoChange \in output /\ output \cap AtMaximumSize # {}

ExpandPartition(r) ==
    CASE r.e.part = "err" -> [r EXCEPT !.code = "Internal"]
      [] r.e.part = "none" -> r
      [] OTHER ->
           LET g == [r EXCEPT !.steps = Append(@, "growpart")]
           IN IF ~r.e.growErr THEN g
              ELSE IF GrowpartNoNeed(r.e.output) THEN [g EXCEPT !.code = "OK"]
              ELSE [g EXCEPT !.code = "InvalidArgument"]

ExpandResize(r) ==
    LET g == [r EXCEPT !.steps = Append(@, "resize")]
    IN IF r.e.resize = "ok" THEN g ELSE [g EXCEPT !.code = "Internal"]

\* Fault-seeded variant of ExpandVerify: the capacity is not compared.
ExpandVerify_Unchecked(r) == [r EXCEPT !.code = "OK", !.capacity = r.e.devcap]

ExpandVerify(r) ==
    IF r.bytes > 0 /\ r.e.devcap < r.bytes THEN [r EXCEPT !.code = "Aborted"]
    ELSE [r EXCEPT !.code = "OK", !.capacity = r.e.devcap]

\* disk NodeExpandVolume; the ens driver returns an empty response at once
NodeExpandVolume(v, path, bytes, e) ==
    LET r0 == BeginExpand(v, path, bytes, e)
        r1 == Then(r0, LAMBDA x : ExpandBlockVolume(x))
        r2 == Then(r1, LAMBDA x : ExpandRund(x))
        r3 == Then(r2, LAMBDA x : ExpandDeviceName(x))
        r4 == Then(r3, LAMBDA x : ExpandPartition(x))
        r5 == Then(r4, LAMBDA x : ExpandResize(x))
    IN IF cfg.driver = "ens" THEN [r0 EXCEPT !.code = "OK"]
       ELSE Then(r5, LAMBDA x : ExpandVerify(x))

Expand(v, path) ==
    /\ last = Idle
    /\ \E bytes \in 0..MaxBytes, e \in ExpandAnswers :
          last' = [op |-> "Expand"] @@ NodeExpandVolume(v, path, bytes, e)
    /\ UNCHANGED <<lazy, values, arrays, proc, providers, target, global2, cfg, clock, stageDir,
                   stageMnt, broken, blkFile, blkMnt, kata, devOf, bdf, record, archive, sysfs>>

InitExpand ==
    /\ cfg \in {c \in Configs : /\ c.vols = {"d1"} /\ c.cap["d1"] = "fs" /\ ~c.adc
                                /\ c.env = "plain" /\ c.vf = "none"
                                /\ ~c.multi /\ ~c.detachDisabled}
    /\ InitHost

NextExpand ==
    \/ \E v \in cfg.vols, path \in TargetPaths : Expand(v, path)
    \/ Settle

SpecExpand == InitExpand /\ [][NextExpand]_vars

\* ------------------------------------------------------------ two volumes
\* Both volumes on one node, each used by one pod: the calls of the two
\* volumes in any order.  The record of a volume is the file the code names
\* from its volume ID; the staging and target paths of a call are the ones
\* kubelet made for its volume.  The handlers create the directories they
\* need themselves.
VolumeDir == <<"/", "host", "/", "etc", "/", "kubernetes", "/", "volumes", "/", "disk", "/">>

\* Fault-seeded variant of VolumeFile: one file name for every volume.
VolumeFile_OneName(volumeID) == Clean(VolumeDir \o <<"/", "volume", ".conf">>)

\* path.Join(VolumeDir, volumeID+".conf")
VolumeFile(volumeID) == Clean(VolumeDir \o <<"/", volumeID, ".conf">>)

VolumeFiles == [v \in VolumeIDs |-> VolumeFile(v)]

\* the host state after the call that ended in r, the record written to the
\* file of that name
CommitFiles(r) ==
    /\ stageDir' = [stageDir EXCEPT ![r.vol] = r.dir]
    /\ stageMnt' = [stageMnt EXCEPT ![r.vol] = r.smnt]
    /\ broken' = [broken EXCEPT ![r.vol] = r.brk]
    /\ blkFile' = [blkFile EXCEPT ![r.vol] = r.blk]
    /\ blkMnt' = [blkMnt EXCEPT ![r.vol] = r.bmnt]
    /\ devOf' = [devOf EXCEPT ![r.vol] = r.dev]
    /\ bdf' = [bdf EXCEPT ![r.vol] = r.bdf]
    /\ record' = [w \in VolumeIDs |->
                     IF VolumeFiles[w] = VolumeFiles[r.vol] THEN r.rec ELSE record[w]]
    /\ archive' = r.arch
    /\ sysfs' = r.sysfs

\* the device name a disk shows up under, every time it is attached
DeviceOf(v) == IF v = "d1" THEN "b" ELSE "c"

\* the target path of the pod that uses the volume
TargetsOf(v) == IF v = "d1" THEN {PodMount("podA")} ELSE {PodMount("podB")}

\* the external calls that fail in this specification: one of each kind
IsoFaults ==
    {"none", "attachErr", "mountErr", "writeErr", "unmountErr", "detachErr", "renameErr",
     "bindErr", "removeErr"}

\* the latest call: which handler, for which volume
Call(op, v) == [op |-> op, vol |-> v]

IsoStage(v) ==
    /\ \E d \in {DeviceOf(v)}, f \in StageFaults \cap IsoFaults :
          LET r == NodeStageVolume(v, "absent", d, f)
          IN CommitFiles(r) /\ last' = Call("Stage", v)
    /\ UNCHANGED <<lazy, values, arrays, proc, providers, target, global2, cfg, clock, kata>>

IsoUnstage(v) ==
    /\ \E f \in UnstageFaults \cap IsoFaults :
          LET r == NodeUnstageVolume(v, f)
          IN CommitFiles(r) /\ last' = Call("Unstage", v)
    /\ UNCHANGED <<lazy, values, arrays, proc, providers, target, global2, cfg, clock, kata>>

IsoPublish(v, t) ==
    /\ \E f \in PublishFaults \cap IsoFaults :
          LET r == NodePublishVolume(v, t, "runc", f)
          IN /\ CommitFiles(r)
             /\ target' = [target EXCEPT ![t] = TargetOf(r)]
             /\ kata' = [kata EXCEPT ![v] = r.kat]
             /\ last' = Call("Publish", v)
    /\ UNCHANGED <<lazy, values, arrays, proc, providers, cfg, clock, global2>>

IsoUnpublish(v, t) ==
    /\ \E f \in UnpublishFaults \cap IsoFaults :
          LET u == NodeUnpublishVolume(v, t, f)
          IN /\ target' = [target EXCEPT ![t] = TargetOf(u)]
             /\ global2' = u.g2
             /\ last' = Call("Unpublish", v)
    /\ UNCHANGED <<lazy, values, arrays, proc, providers, cfg, clock, stageDir, stageMnt, broken,
                   blkFile, blkMnt, kata, devOf, bdf, record, archive, sysfs>>

\* the answers to an Expand call, one growpart output among them
IsoAnswers ==
    {e \in ExpandAnswers : /\ e.rund = "no" /\ e.part = "none" /\ ~e.growErr /\ e.output = {}
                            /\ e.resize = "ok" /\ e.devcap = MaxBytes}

IsoExpand(v, path) ==
    /\ \E e \in IsoAnswers : NodeExpandVolume(v, path, MaxBytes, e).code \in Codes
    /\ last' = Call("Expand", v)
    /\ UNCHANGED <<lazy, values, arrays, proc, providers, target, global2, cfg, clock, stageDir,
                   stageMnt, broken, blkFile, blkMnt, kata, devOf, bdf, record, archive, sysfs>>

InitIso ==
    /\ cfg \in {c \in Configs : /\ c.vols = VolumeIDs /\ c.vf = "none" /\ ~c.adc
                                /\ ~c.multi /\ ~c.detachDisabled /\ c.env = "plain"
                                /\ \A v \in VolumeIDs : c.cap[v] = "fs"}
    /\ InitHost

NextIso ==
    \/ \E v \in cfg.vols : IsoStage(v)
    \/ \E v \in cfg.vols : IsoUnstage(v)
    \/ \E v \in cfg.vols : \E t \in TargetsOf(v) : IsoPublish(v, t)
    \/ \E v \in cfg.vols : \E t \in TargetsOf(v) : IsoUnpublish(v, t)
    \/ \E v \in cfg.vols : \E t \in TargetsOf(v) : IsoExpand(v, t)

SpecIso == InitIso /\ [][NextIso]_vars

\* ------------------------------------------------------- MAX_VOLUMES_PERNODE
\* A further specification: the volume count of the node as a function of
\* the environment variable, a string of at most MaxEnvLen characters; the
\* empty string is the variable unset.
MaxEnvLen == 3
DefaultMaxVolumesPerNode == 15
MaxVolumesPerNodeLimit == 64
Digits == {"0", "1", "4", "5", "6"}
EnvChars == Digits \cup {"-", "+", "x"}
EnvStrings == UNION {[1..n -> EnvChars] : n \in 0..MaxEnvLen}

DigitValue(c) ==
    CASE c = "0" -> 0 [] c = "1" -> 1 [] c = "4" -> 4 [] c = "5" -> 5 [] c = "6" -> 6

\* the digit loop of strconv.Atoi / strconv.ParseInt(s, 10, 64) from index i
RECURSIVE ParseDigits(_, _, _)
ParseDigits(s, i, acc) ==
    IF i > Len(s) THEN [ok |-> TRUE, num |-> acc]
    ELSE IF s[i] \notin Digits THEN [ok |-> FALSE, num |-> 0]
    ELSE ParseDigits(s, i + 1, 10 * acc + DigitValue(s[i]))

\* strconv.Atoi: an optional sign, then at least one digit, nothing else
Atoi(s) ==
    LET signed == Len(s) > 0 /\ s[1] \in {"-", "+"}
        body == IF signed THEN SubSeq(s, 2, Len(s)) ELSE s
        p == ParseDigits(body, 1, 0)
    IN IF Len(body) = 0 \/ ~p.ok THEN [ok |-> FALSE, num |-> 0]
       ELSE [ok |-> TRUE, num |-> IF signed /\ s[1] = "-" THEN 0 - p.num ELSE p.num]

\* disk getVolumeCount; openapi is what getVolumeCountFromOpenAPI returns
getVolumeCount(volumeNum, openapi) ==
    IF volumeNum # <<>>
    THEN LET a == Atoi(volumeNum)
         IN IF ~a.ok THEN [failed |-> TRUE, num |-> 0]
            ELSE IF a.num < 0 \/ a.num > MaxVolumesPerNodeLimit
            THEN [failed |-> TRUE, num |-> 0]
            ELSE [failed |-> FALSE, num |-> a.num]
    ELSE IF openapi.failed THEN [failed |-> TRUE, num |-> 0]
    ELSE [failed |-> FALSE, num |-> openapi.num]

\* ens NewNodeServer: maxVolumesNum; a string that is no integer ends the
\* process (klog.Fatalf)
NewNodeServer(volumeNum) ==
    IF volumeNum # <<>>
    THEN LET a == Atoi(volumeNum)
         IN IF ~a.ok THEN [failed |-> TRUE, num |-> 0]
            ELSE IF a.num < 0 \/ a.num > 64
            THEN [failed |-> FALSE, num |-> DefaultMaxVolumesPerNode]
            ELSE [failed |-> FALSE, num |-> a.num]
    ELSE [failed |-> FALSE, num |-> DefaultMaxVolumesPerNode]

\* the node server starts and answers NodeGetInfo
VolumeCount(volumeNum) ==
    /\ last = Idle
    /\ \E openapi \in {[failed |-> TRUE, num |-> 0], [failed |-> FALSE, num |-> 7]} :
          LET c == IF cfg.driver = "disk" THEN getVolumeCount(volumeNum, openapi)
                   ELSE NewNodeServer(volumeNum)
          IN last' = [op |-> "volumeCount", env |-> volumeNum, failed |-> c.failed,
                      num |-> c.num,
                      computed |-> IF cfg.driver = "disk" THEN openapi
                                   ELSE [failed |-> FALSE, num |-> DefaultMaxVolumesPerNode]]
    /\ UNCHANGED <<lazy, values, arrays, proc, providers, target, global2, cfg, clock, stageDir,
                   stageMnt, broken, blkFile, blkMnt, kata, devOf, bdf, record, archive, sysfs>>

InitCount ==
    /\ cfg \in {c \in Configs : /\ c.vols = {"d1"} /\ c.cap["d1"] = "fs" /\ ~c.adc
                                /\ c.env = "plain" /\ c.vf = "none"
                                /\ ~c.multi /\ ~c.detachDisabled}
    /\ InitHost

NextCount ==
    \/ \E volumeNum \in EnvStrings : VolumeCount(volumeNum)
    \/ Settle

SpecCount == InitCount /\ [][NextCount]_vars

\* ------------------------------------------------------ collectMountOptions
\* A further specification: collectMountOptions applied to every list of at
\* most MaxFlags flags and every fsType, and once more to its own result.
MaxFlags == 4
NOUUID == "nouuid"
MountFlags == {"ro", "discard", "noatime", NOUUID}
FsTypes == {"xfs", "ext4", ""}
FlagLists == UNION {[1..n -> MountFlags] : n \in 0..MaxFlags}

\* Fault-seeded variant of hasMountOption: no option is ever found.
hasMountOption_Never(options, opt) == FALSE

\* hasMountOption: the loop over options
hasMountOption(options, opt) == \E i \in 1..Len(options) : options[i] = opt

\* the loop of collectMountOptions over mntFlags from index i
RECURSIVE CollectLoop(_, _, _)
CollectLoop(mntFlags, i, options) ==
    IF i > Len(mntFlags) THEN options
    ELSE IF ~hasMountOption(options, mntFlags[i])
    THEN CollectLoop(mntFlags, i + 1, Append(options, mntFlags[i]))
    ELSE CollectLoop(mntFlags, i + 1, options)

collectMountOptions(fsType, mntFlags) ==
    LET options == CollectLoop(mntFlags, 1, <<>>)
    IN IF fsType = "xfs" /\ ~hasMountOption(options, NOUUID) THEN Append(options, NOUUID)
       ELSE options

Collect(fsType, mntFlags) ==
    /\ last = Idle
    /\ LET options == collectMountOptions(fsType, mntFlags)
       IN last' = [op |-> "collect", fsType |-> fsType, flags |-> mntFlags,
                   options |-> options, again |-> collectMountOptions(fsType, options)]
    /\ UNCHANGED <<lazy, values, arrays, proc, providers, target, global2, cfg, clock, stageDir,
                   stageMnt, broken, blkFile, blkMnt, kata, devOf, bdf, record, archive, sysfs>>

InitCollect ==
    /\ cfg \in {c \in Configs : /\ c.vols = {"d1"} /\ c.cap["d1"] = "fs" /\ ~c.adc
                                /\ c.env = "plain" /\ c.vf = "none"
                                /\ ~c.multi /\ ~c.detachDisabled}
    /\ InitHost

NextCollect ==
    \/ \E fsType \in FsTypes, mntFlags \in FlagLists : Collect(fsType, mntFlags)
    \/ Settle

SpecCollect == InitCollect /\ [][NextCollect]_vars

\* ------------------------------------------------------------------ claims
\* whether the path the latest call operated on is a mount point now
MountedAt(v, tpath) ==
    IF tpath = "blk" THEN blkMnt[v] # NoDevice ELSE stageMnt[v] # NoDevice

\* C1 -- Stage idempotence.  A Stage call for a filesystem volume that
\* repeats a Stage call that succeeded, with the same arguments and with no
\* external call failing, returns success, invokes no attach, does not enter
\* the record-persist step, writes and archives no record, invokes no
\* format/mount, and leaves the Device Record exactly as the first call did.
C1_StageIdempotent ==
    [][(/\ last.op = "Stage" /\ last.code = "OK"
        /\ last'.op = "Stage" /\ last'.again /\ last'.nominal
        /\ ~IsBlockVolume(last'.vol))
       => (/\ last'.code = "OK"
           /\ ~last'.attach /\ ~last'.reached /\ ~last'.saved /\ ~last'.archived
           /\ ~last'.mount
           /\ record' = record)]_vars

\* a repeated Stage of a staged, recorded filesystem volume has returned
C1_Witness ==
    /\ last.op = "Stage" /\ last.again /\ last.nominal /\ last.code = "OK"
    /\ ~IsBlockVolume(last.vol)
    /\ stageMnt[last.vol] \in Devices /\ record[last.vol] \in Devices

\* C2 -- device verification in Stage.  When the device obtained for the
\* volume fails CheckDeviceAvailable the call returns Internal and has not
\* entered the record-persist step, written no record, applied no sysfs
\* setting and mounted nothing; and a call that enters the record-persist
\* step has obtained a device (lookup, bind or attach) that passed the check.
C2_VerifyBeforePersist ==
    last.op = "Stage" =>
        /\ (last.verify = "fail") =>
              (/\ last.code = "Internal"
               /\ ~last.reached /\ ~last.saved /\ last.sysw = {} /\ ~last.mount)
        /\ (last.reached \/ last.saved) =>
              (last.verify = "ok" /\ (last.lookup \/ last.bind \/ last.attach))

\* an attach returned a device that failed the identity check
C2_Witness ==
    /\ last.op = "Stage" /\ last.attach /\ last.verify = "fail"
    /\ last.code = "Internal"

C4_UnstageLeavesNoRecord ==
    (last.op = "Unstage" /\ last.code = "OK") => record[last.vol] = NoFile

\* C5 -- each archival adds an entry to the archive directory and keeps
\* every entry that was there.
C5_ArchiveGrows ==
    [][(last'.op \in {"Stage", "Unstage"} /\ last'.archived)
       => (/\ archive \subseteq archive'
           /\ Cardinality(archive') = Cardinality(archive) + 1)]_vars

\* C6 (as stated) -- an Unstage that succeeds has invoked detach exactly
\* when attach/detach is not delegated to an external controller.
C6_DetachIffNotDelegated ==
    (last.op = "Unstage" /\ last.code = "OK") => (last.detach <=> ~cfg.adc)

\* C6 (amended) -- Unstage never invokes detach when attach/detach is
\* delegated to an external controller or detach is disabled by
\* configuration, and an Unstage that succeeds has invoked detach exactly
\* when neither is the case.
C6_SingleOwnerDetach ==
    last.op = "Unstage" =>
        /\ last.detach => (~cfg.adc /\ ~cfg.detachDisabled)
        /\ (last.code = "OK") => (last.detach <=> (~cfg.adc /\ ~cfg.detachDisabled))

\* a successful Unstage of an attached volume detached it itself
C6_Witness ==
    /\ last.op = "Unstage" /\ last.code = "OK" /\ last.detach
    /\ ~cfg.adc /\ devOf[last.vol] = NoDevice /\ last.unmount = "ok"

\* C7 -- Unstage ordering.  Unbind, detach and record archival happen only
\* in a call that has found the path it operates on not mounted; when an
\* unmount reported success and the path is still a mount point, the call
\* returns Internal and has done none of the three.
C7_UnstageOrdering ==
    last.op = "Unstage" =>
        /\ (last.unbind \/ last.detach \/ last.archived)
              => ~MountedAt(last.vol, last.tpath)
        /\ (last.unmount = "ok" /\ MountedAt(last.vol, last.tpath))
              => (/\ last.code = "Internal"
                  /\ ~last.unbind /\ ~last.detach /\ ~last.archived)

\* the unmount went through and the path was still mounted
C7_Witness ==
    /\ last.op = "Unstage" /\ last.unmount = "ok"
    /\ MountedAt(last.vol, last.tpath) /\ last.code = "Internal"

\* C8 -- Unstage idempotence.  An Unstage of a volume whose staging path
\* carries no mount invokes no unmount and, when no external call fails,
\* returns success; an Unstage that repeats a successful Unstage returns
\* success when no external call fails.
C8_UnstageIdempotent ==
    [][last'.op = "Unstage" =>
         /\ (stageMnt[last'.vol] = NoDevice /\ blkMnt[last'.vol] = NoDevice)
               => (last'.unmount = "none" /\ (last'.nominal => last'.code = "OK"))
         /\ (last.op = "Unstage" /\ last.code = "OK" /\ last'.again /\ last'.nominal)
               => last'.code = "OK"]_vars

\* a second Unstage in a row reached detach for the detached volume
C8_Witness ==
    /\ last.op = "Unstage" /\ last.again /\ last.code = "OK"
    /\ last.unmount = "none" /\ last.detach

\* C9 -- a Stage call whose sysConfig holds a pair without '=' returns an
\* error and has invoked no attach, written or archived no record, written
\* no sysfs value and mounted nothing.
C9_ValidateBeforeMutation ==
    (last.op = "Stage" /\ last.sys # "absent" /\ last.sys = <<"x", "=", "1", ",", "y">>)
        => (/\ last.code # "OK"
            /\ ~last.attach /\ ~last.saved /\ ~last.archived
            /\ last.sysw = {} /\ ~last.mount)

\* where a path leads, element by element, from the directory at
RECURSIVE Walk(_, _)
Walk(at, elems) ==
    IF elems = <<>> THEN at
    ELSE LET e == Head(elems)
         IN IF e = <<>> \/ e = Dot THEN Walk(at, Tail(elems))
            ELSE IF e = DotDot
            THEN Walk(IF at = <<>> THEN at ELSE SubSeq(at, 1, Len(at) - 1), Tail(elems))
            ELSE Walk(Append(at, e), Tail(elems))

\* /sys/block/<device base name>, and whether a place lies inside it
DeviceDir(d) == << <<"sys">>, <<"block">>, <<d>> >>
Inside(d, at) == Len(at) > 3 /\ SubSeq(at, 1, 3) = DeviceDir(d)
KeyOf(sys) == Cut(sys, "=").before

C11_PublishIdempotent ==
    [][/\ (last'.op = "Publish" /\ target[last'.tgt].mnt # <<>>)
          => (/\ last'.binds = 0 /\ ~last'.remount /\ ~last'.srcmount
              /\ target' = target /\ stageMnt' = stageMnt /\ blkMnt' = blkMnt
              /\ last'.nominal => last'.code = "OK")
       /\ (last.op = "Publish" /\ last.code = "OK" /\ last'.op = "Publish" /\ last'.again)
          => Len(target'[last'.tgt].mnt) = 1]_vars

\* C11 (amended) -- the same fast path; a Publish that repeats a successful
\* Publish with the same arguments issues no mount onto the target and
\* leaves on it the mounts the first call left: exactly one, or none when
\* the pod runs under runv in a MixRunTimeMode disk deployment, where
\* Publish hands the device over in a flag file and mounts nothing.
C11_PublishFastPath ==
    [][/\ (last'.op = "Publish" /\ target[last'.tgt].mnt # <<>>)
          => (/\ last'.binds = 0 /\ ~last'.remount /\ ~last'.srcmount
              /\ target' = target /\ stageMnt' = stageMnt /\ blkMnt' = blkMnt
              /\ last'.nominal => last'.code = "OK")
       /\ (last.op = "Publish" /\ last.code = "OK" /\ last'.op = "Publish" /\ last'.again)
          => (/\ last'.binds = 0
              /\ target'[last'.tgt].mnt = target[last'.tgt].mnt
              /\ Len(target'[last'.tgt].mnt) <= 1
              /\ Len(target'[last'.tgt].mnt) = 0
                    => (cfg.driver = "disk" /\ cfg.env = "kata" /\ last'.runtime = "runv"))]_vars

\* a repeated Publish has returned success on a target that carries one mount
C11_Witness ==
    /\ last.op = "Publish" /\ last.again /\ last.code = "OK" /\ last.binds = 0
    /\ Len(target[last.tgt].mnt) = 1

\* C12 -- Publish self-healing for filesystem volumes.  A Publish call
\* that found its target not mounted and then its staging path not mounted
\* calls mountDeviceToGlobal exactly when a device of the volume is visible
\* on the host, mounts onto the target only after that remount has put the
\* device on the staging path, and without a device returns Internal and
\* issues no mount onto the target, whose mounts stay as they were.
C12_PublishSelfHealing ==
    [][(last'.op = "Publish" /\ last'.src = "notMounted")
          => (/\ target[last'.tgt].mnt = <<>>
              /\ last'.remount <=> devOf[last'.vol] # NoDevice
              /\ last'.binds > 0 => (last'.remount /\ stageMnt'[last'.vol] # NoDevice)
              /\ devOf[last'.vol] = NoDevice
                    => (/\ last'.code = "Internal" /\ last'.binds = 0
                        /\ target'[last'.tgt].mnt = <<>>))]_vars

\* a Publish has found the staging path not mounted, mounted the device on
\* it again and bound it to the target
C12_Witness ==
    /\ last.op = "Publish" /\ last.src = "notMounted" /\ last.remount
    /\ last.code = "OK" /\ last.binds = 1
    /\ stageMnt[last.vol] \in Devices /\ target[last.tgt].mnt = <<last.vol>>

\* the targets on which the staging path of a volume is mounted
PublishedTargets(v) ==
    {t \in TargetPaths : \E i \in 1..Len(target[t].mnt) : target[t].mnt[i] = v}

\* C13 -- published-target cardinality.  A volume that is not flagged
\* multi-attach has one published target at most at any time, and a Publish
\* to a second target while a first one is published does not succeed.
C13_OnePublishedTarget ==
    /\ [](~IsMultiAttach => \A v \in VolumeIDs : Cardinality(PublishedTargets(v)) <= 1)
    /\ [][(/\ last'.op = "Publish" /\ ~IsMultiAttach
            /\ PublishedTargets(last'.vol) \ {last'.tgt} # {})
          => last'.code # "OK"]_vars

\* ---------------------------------------------------- claims on Unpublish
\* whether step s is among the steps of the latest call
Took(steps, s) == \E i \in 1..Len(steps) : steps[i] = s

\* C14 -- Unpublish on a target path that does not exist returns success
\* (when no external call fails) and has attempted the duplicate-mount
\* cleanup at the secondary global path before it returns.
C14_AbsentTargetCleanup ==
    [][(last'.op = "Unpublish" /\ target[last'.tgt].kind = "none")
          => (/\ last'.nominal => last'.code = "OK"
              /\ Took(last'.steps, "dup"))]_vars

\* the target as NodeUnpublishVolume finds it when it is no mount point
RunvTarget(t) ==
    /\ cfg.driver = "disk" /\ cfg.env = "kata"
    /\ target[t].kind = "dir" /\ target[t].content = "flag"
EmptyDir(t) == target[t].kind = "dir" /\ target[t].content = "empty"
BlockFile(t) == target[t].kind = "file" /\ HasPrefix(t, BLOCKVOLUMEPREFIX)

\* C15 (as stated) -- Unpublish on an existing target that is not a mount
\* point: success for an empty directory; a file under the raw-block
\* publish prefix is removed, with success; in every other case Internal,
\* with the target and its contents unchanged.
C15_UnpublishNotMountedStrict ==
    [][(/\ last'.op = "Unpublish"
        /\ target[last'.tgt].kind # "none" /\ target[last'.tgt].mnt = <<>>)
          => (/\ ~Took(last'.steps, "unmount")
              /\ EmptyDir(last'.tgt)
                    => (target' = target /\ (last'.nominal => last'.code = "OK"))
              /\ BlockFile(last'.tgt)
                    => (/\ last'.nominal
                              => (last'.code = "OK" /\ target'[last'.tgt].kind = "none")
                        /\ last'.code # "OK" => target' = target)
              /\ (~EmptyDir(last'.tgt) /\ ~BlockFile(last'.tgt))
                    => (last'.code = "Internal" /\ target' = target))]_vars

\* C15 (amended) -- the same, except that in a MixRunTimeMode disk
\* deployment a directory that holds the flag file of a runv pod has that
\* file removed, with success (InvalidArgument when the removal fails).
C15_UnpublishNotMounted ==
    [][(/\ last'.op = "Unpublish"
        /\ target[last'.tgt].kind # "none" /\ target[last'.tgt].mnt = <<>>)
          => (/\ ~Took(last'.steps, "unmount")
              /\ RunvTarget(last'.tgt)
                    => (/\ last'.nominal
                              => (/\ last'.code = "OK"
                                  /\ target' = [target EXCEPT ![last'.tgt].content = "empty"])
                        /\ last'.code # "OK"
                              => (/\ last'.code \in {"InvalidArgument", "Internal"}
                                  /\ target' = target))
              /\ EmptyDir(last'.tgt)
                    => (target' = target /\ (last'.nominal => last'.code = "OK"))
              /\ BlockFile(last'.tgt)
                    => (/\ last'.nominal
                              => (last'.code = "OK" /\ target'[last'.tgt].kind = "none")
                        /\ last'.code # "OK" => target' = target)
              /\ (~RunvTarget(last'.tgt) /\ ~EmptyDir(last'.tgt) /\ ~BlockFile(last'.tgt))
                    => (/\ last'.code = "Internal" /\ target' = target
                        /\ global2' = global2))]_vars

\* an Unpublish has refused a directory that is not mounted and not empty
C15_Witness ==
    /\ last.op = "Unpublish" /\ last.nominal /\ last.code = "Internal"
    /\ target[last.tgt].kind = "dir" /\ target[last.tgt].content = "other"
    /\ target[last.tgt].mnt = <<>>

\* C16 -- Unpublish on a mounted target unmounts the target, removes the
\* target path and then runs the duplicate-mount cleanup check, in this
\* order; a step that fails returns Internal and the later steps are not
\* taken; after a success the target path does not exist, and an Unpublish
\* that repeats it returns success.
C16_UnpublishOrder ==
    [][/\ (last'.op = "Unpublish" /\ target[last'.tgt].mnt # <<>>)
          => (/\ last'.code \in {"OK", "Internal"}
              /\ \E n \in 0..4 :
                    last'.steps = SubSeq(<<"unmount", "remove", "dup", "dupUnmount">>, 1, n)
              /\ last'.code = "OK"
                    => (/\ Len(last'.steps) >= 3
                        /\ target'[last'.tgt].kind = "none")
              /\ ~Took(last'.steps, "remove") => target'[last'.tgt].kind # "none")
       /\ (/\ last.op = "Unpublish" /\ last.code = "OK"
           /\ last'.op = "Unpublish" /\ last'.again /\ last'.nominal)
          => last'.code = "OK"]_vars

\* ------------------------------------------------ claims on the record store
\* C17 -- Device Record writes are crash/cancel safe.  When a save of a new
\* Device Record is interrupted between two of its filesystem steps, the
\* live record of the volume ID is not half-written, and it is the record
\* that was live when the save started, intact, or the complete new record.
C17_RecordCrashSafe ==
    \A p \in DOMAIN proc :
        proc[p].pc = "interrupted"
           => (/\ record[proc[p].vol] # Truncated
               /\ record[proc[p].vol] \in {proc[p].old, proc[p].dev})

\* ------------------------------------------------ claims on overlapping calls
\* the calls among ps that have invoked attach / FormatAndMount
Attached(ps) == {p \in ps : proc[p].r.attach}
Mounted(ps) == {p \in ps : proc[p].r.mount}

\* C18 -- overlapping retries converge.  When two Stage calls with the same
\* arguments for one volume ID have both returned, whatever the order of
\* their steps, the state is the state a single successful Stage leaves: the
\* device mounted on the staging path by one FormatAndMount, one live Device
\* Record with the device path and nothing archived, and one attach.
C18_OverlappingStageConverges ==
    (\A p \in DOMAIN proc : proc[p].pc = Returned)
       => \A p \in DOMAIN proc :
             LET v == proc[p].r.vol
             IN /\ proc[p].r.code = "OK"
                /\ stageMnt[v] = devOf[v] /\ devOf[v] \in Devices
                /\ record[v] = devOf[v] /\ archive = {}
                /\ Cardinality(Attached(DOMAIN proc)) = 1
                /\ Cardinality(Mounted(DOMAIN proc)) = 1

\* ------------------------------------------------ claims on Metadata.Get
\* the places in the chain that hold a value / an error other than
\* ErrUnknownMetadataKey for the key
Holders(key) == {i \in 1..Len(providers) : providers[i].answer[key] = "value"}
Failing(key) == {i \in 1..Len(providers) : providers[i].answer[key] = "error"}
\* the errors of the failing providers in chain order
RECURSIVE ErrorsFrom(_, _)
ErrorsFrom(i, key) ==
    IF i > Len(providers) THEN <<>>
    ELSE (IF i \in Failing(key) THEN <<ErrorOf(providers[i])>> ELSE <<>>)
            \o ErrorsFrom(i + 1, key)

\* C19 -- Metadata.Get(key) returns the value of the first provider in the
\* chain that holds a value for the key, with no error; the providers after
\* it are not consulted, and those before it answered unknown-key or failed
\* with another error, which is not returned.
C19_FirstValueWins ==
    (last.op = "Get" /\ Holders(last.key) # {})
       => LET first == CHOOSE i \in Holders(last.key) :
                          \A j \in Holders(last.key) : i <= j
          IN /\ last.err = NilError
             /\ last.v = ValueOf(providers[first])
             /\ last.consulted = first
             /\ \A j \in 1..(first - 1) :
                   providers[j].answer[last.key] \in {"unknown", "error"}

\* with providers [A (unknown key), B (a value)] Get has returned B's value
C19_Witness ==
    /\ last.op = "Get" /\ Len(providers) = 2
    /\ providers[1].answer[last.key] = "unknown" /\ providers[2].answer[last.key] = "value"
    /\ last.v = ValueOf(providers[2]) /\ last.err = NilError

\* C20 -- when no provider holds a value for the key, Metadata.Get returns
\* ErrUnknownMetadataKey exactly when every provider answered unknown-key;
\* otherwise it returns the aggregate of exactly the other errors, in chain
\* order, which is not ErrUnknownMetadataKey.
C20_ErrorOutcome ==
    (last.op = "Get" /\ Holders(last.key) = {})
       => /\ last.err # NilError
          /\ last.err = ErrUnknownMetadataKey <=> Failing(last.key) = {}
          /\ Failing(last.key) # {}
                => (/\ last.err = NewAggregate(ErrorsFrom(1, last.key))
                    /\ Len(last.err.errs) = Cardinality(Failing(last.key)))

\* two of three providers have failed, one did not know the key
C20_Witness ==
    /\ last.op = "Get" /\ Len(providers) = 3
    /\ Cardinality(Failing(last.key)) = 2 /\ Holders(last.key) = {}
    /\ providers[2].answer[last.key] = "unknown"
    /\ last.err = NewAggregate(<<ErrorOf(providers[1]), ErrorOf(providers[3])>>)

\* ------------------------------------------------ claims on lazyInitProvider
\* C21 as stated -- FetchFor, the construction of the backing provider, is
\* executed at most once in the lifetime of a lazily initialized provider.
C21_FetchAtMostOnce == lazy.fetches <= 1

\* C21 -- a FetchFor that returns anything but ErrUnknownMetadataKey is
\* executed at most once (one that returns ErrUnknownMetadataKey leaves the
\* provider uninitialized and the next Get runs FetchFor again); FetchFor
\* and the writes of its outcome are made by the one caller holding initMu;
\* once a provider or an error is stored neither changes and FetchFor is
\* not run again; and every call that returns afterwards returns that error
\* or the answer of that provider.
C21_ConstructOnce ==
    [][/\ lazy'.built <= 1
       /\ \A c \in Callers : proc'[c].pc \in LockedSection => lazy'.initMu = c
       /\ (lazy.provider # 0 \/ lazy.err # 0)
             => /\ lazy'.provider = lazy.provider /\ lazy'.err = lazy.err
                /\ lazy'.fetches = lazy.fetches
       /\ (last' # last /\ last'.op = "lazyGet")
             => /\ last'.res # "panic"
                /\ last'.res = "unknownKey" => (last'.fetched /\ Uninitialized(lazy))
                /\ last'.res = "fetchError" => (lazy.err # 0 /\ last'.via = lazy.err)
                /\ last'.res \in Answers => (/\ lazy.provider # 0 /\ lazy.err = 0
                                               /\ last'.via = lazy.provider)]_vars

\* a caller that found the provider uninitialized, waited for the lock and
\* found it constructed by the other caller has returned that provider's
\* answer; FetchFor ran once
C21_Witness ==
    /\ last.op = "lazyGet" /\ last.waited /\ ~last.fetched
    /\ last.res = "value" /\ last.via = 1 /\ lazy.fetches = 1 /\ lazy.built = 1

\* ------------------------------------------------ claims on immutableProvider
\* C22 -- once Get(K) of a caching provider has returned a value v, the map
\* holds exactly one entry for K, no step replaces or removes it, and every
\* later Get(K) returns v without calling the wrapped provider, whatever
\* that provider would answer now.
C22_Memoized ==
    [][/\ \A e \in values : e \in values'
       /\ \A e, f \in values' : e.key = f.key => e = f
       /\ (last' # last /\ last'.op = "immutableGet")
             => /\ \A e \in values : e.key = last'.key
                      => (last'.res = "value" /\ last'.v = e.v /\ ~last'.called)
                /\ last'.res = "value" => [key |-> last'.key, v |-> last'.v] \in values']_vars

\* Get has returned the cached v1 while the wrapped provider would now
\* answer v2
C22_Witness ==
    /\ last.op = "immutableGet" /\ last.res = "value" /\ last.v = "v1" /\ ~last.called
    /\ providers[1].answer[last.key] = "v2"

\* ------------------------------------------------ claims on the Enable calls
\* the OpenAPI providers of the chain, by place
Composites == {i \in 1..providers.len : Chain[i].kind = "openapi"}

\* C23 -- the provider list of every OpenAPI provider is exactly the chain
\* as it was immediately before EnableOpenAPI appended that provider, which
\* is the part of the chain before it; it does not contain the provider
\* itself, no later Enable call changes it, and a Get the fetcher makes
\* through it never consults the provider itself.
C23_SelfSnapshot ==
    /\ \A i \in Composites :
          LET pre == View(arrays, Chain[i].pre)
          IN /\ pre = Chain[i].before
             /\ pre = SubSeq(Chain, 1, i - 1)
             /\ \A j \in 1..Len(pre) : pre[j].name # i
    /\ last.op = "preGet" => last.of \notin last.consulted

\* an OpenAPI provider whose list shares its backing array with the chain
\* has resolved a key through that list after a later Enable call appended
\* to the same array
C23_Witness ==
    /\ last.op = "preGet" /\ last.of < providers.len
    /\ Chain[last.of].pre.arr = providers.arr
    /\ last.consulted # {}

\* C24 -- the chain starts with the environment provider; a step either
\* leaves the chain as it is or appends one provider at its end; and
\* whenever the environment provider holds a value for a key, Get returns
\* that value whatever the later providers answer.
C24_FixedOrder ==
    [][/\ Chain[1].kind = "env" /\ Chain'[1] = Chain[1]
       /\ \/ Chain' = Chain
          \/ Len(Chain') = Len(Chain) + 1 /\ SubSeq(Chain', 1, Len(Chain)) = Chain
       /\ (last'.op = "Enable" /\ ~last'.appended) => Chain' = Chain
       /\ (last'.op = "Get" /\ Chain[1].answer[last'.key] = "value")
             => (last'.v = ValueOf(Chain[1]) /\ last'.err = NilError)]_vars

\* Get has returned the environment provider's value although a provider
\* added later holds a value too
C24_Witness ==
    /\ last.op = "Get" /\ providers.len >= 3
    /\ Chain[1].answer[last.key] = "value" /\ Chain[2].answer[last.key] = "value"
    /\ last.v = ValueOf(Chain[1]) /\ last.err = NilError

\* ------------------------------------------------ claims on Expand
\* the latest call ran growpart and growpart failed
GrowpartFailed == last.op = "Expand" /\ Took(last.steps, "growpart") /\ last.e.growErr
AtMaximum == NoChange \in last.e.output /\ last.e.output \cap AtMaximumSize # {}

\* C25 -- when growpart fails with a NOCHANGE report that carries an
\* at-maximum-size reason Expand returns success with the existing device
\* capacity in the response; when it fails in any other way Expand returns
\* an error.
C25_GrowpartNoChange ==
    GrowpartFailed
       => IF AtMaximum THEN last.code = "OK" /\ last.capacity = last.e.devcap
          ELSE last.code \notin {"", "OK"}

\* C26 -- when, after growpart and the filesystem resize, the device
\* capacity is smaller than a positive request, Expand returns Aborted; and
\* a successful Expand that reports a capacity for a positive request
\* reports one not smaller than the request.
C26_CapacityCheck ==
    last.op = "Expand"
       => /\ (/\ Took(last.steps, "resize") /\ last.e.resize = "ok"
               /\ last.bytes > 0 /\ last.e.devcap < last.bytes) => last.code = "Aborted"
          /\ (last.code = "OK" /\ last.capacity > 0 /\ last.bytes > 0)
                => last.capacity >= last.bytes

\* growpart and the resize succeeded and the device is still smaller than
\* the request: Aborted
C26_Witness ==
    /\ last.op = "Expand" /\ last.steps = <<"growpart", "resize">>
    /\ last.bytes = 2 /\ last.e.devcap = 1 /\ last.code = "Aborted"

\* C27 -- every successful Expand of a volume that is neither raw block
\* nor delegated to the guest has run the filesystem resize, after growpart
\* when growpart ran, also when growpart reported the tolerated no-change;
\* Expand of a raw-block path succeeds and runs neither.
C27_AlwaysResize ==
    (last.op = "Expand" /\ last.code = "OK")
       => IF Contains(last.path, BLOCKVOLUMEPREFIX) THEN last.steps = <<>>
          ELSE last.e.rund = "no"
                  => \E n \in 1..Len(last.steps) :
                        /\ last.steps[n] = "resize"
                        /\ \A k \in 1..Len(last.steps) :
                              last.steps[k] = "growpart" => k < n

\* ------------------------------------------------ claims on the volume count
\* C28 -- with MAX_VOLUMES_PERNODE set, a value that is no integer or lies
\* outside 0..64 makes the start fail, and a value inside the range is the
\* ceiling reported; with the variable unset the ceiling is the computed or
\* default limit.
C28_CapRejected ==
    last.op = "volumeCount"
       => IF last.env # <<>>
          THEN LET a == Atoi(last.env)
               IN IF ~a.ok \/ a.num < 0 \/ a.num > 64 THEN last.failed
                  ELSE ~last.failed /\ last.num = a.num
          ELSE /\ last.failed = last.computed.failed
               /\ ~last.failed => last.num = last.computed.num

\* ------------------------------------------------ claims on mount options
\* the first occurrences of the elements of a list, in order
RECURSIVE FirstOccurrences(_, _)
FirstOccurrences(flags, i) ==
    IF i > Len(flags) THEN <<>>
    ELSE (IF \E j \in 1..(i - 1) : flags[j] = flags[i] THEN <<>> ELSE <<flags[i]>>)
            \o FirstOccurrences(flags, i + 1)
Among(flags, opt) == \E i \in 1..Len(flags) : flags[i] = opt

\* C29 -- collectMountOptions returns the flags without duplicates, first
\* occurrences in input order; for fsType xfs the result holds nouuid
\* exactly once, appended last when it was not among the flags; for any
\* other fsType nothing is added; and the function applied to its own
\* result returns that result.
C29_MountOptions ==
    last.op = "collect"
       => /\ last.options =
                FirstOccurrences(last.flags, 1)
                   \o (IF last.fsType = "xfs" /\ ~Among(last.flags, NOUUID)
                       THEN <<NOUUID>> ELSE <<>>)
          /\ \A i, j \in 1..Len(last.options) :
                last.options[i] = last.options[j] => i = j
          /\ last.fsType = "xfs" => Among(last.options, NOUUID)
          /\ last.again = last.options

\* ["ro","ro","discard"] with xfs has given ["ro","discard","nouuid"]
C29_Witness ==
    /\ last.op = "collect" /\ last.fsType = "xfs"
    /\ last.flags = <<"ro", "ro", "discard">>
    /\ last.options = <<"ro", "discard", NOUUID>>

\* C30 -- Unstage tolerance of a broken staging mount.  When the probe of
\* the staging path reports input/output error, the call force-unmounts the
\* staging path: it ends with InvalidArgument exactly when that unmount
\* fails, and then without unbind, detach or archival; when no external call
\* fails it returns success with the mount gone and the teardown done.  When
\* the probe reports any other error the call returns InvalidArgument, has
\* invoked no unmount, unbind, detach or archival and leaves the host as it was.
C30_BrokenStagingMount ==
    [][(last = Idle /\ last'.op = "Unstage") =>
         /\ last'.stat = "ioErr" =>
               /\ last'.unmount # "none"
               /\ (last'.code = "InvalidArgument") <=> (last'.fault = "unmountErr")
               /\ last'.fault = "unmountErr" =>
                     (/\ last'.unmount = "err"
                      /\ ~last'.unbind /\ ~last'.detach /\ ~last'.archived)
               /\ last'.fault \in {"none", "pathAvailable"} =>
                     (/\ last'.code = "OK"
                      /\ stageMnt'[last'.vol] = NoDevice /\ ~broken'[last'.vol]
                      /\ ~cfg.adc => (last'.detach /\ devOf'[last'.vol] = NoDevice))
         /\ last'.stat = "otherErr" =>
               /\ last'.code = "InvalidArgument"
               /\ last'.unmount = "none"
               /\ ~last'.unbind /\ ~last'.detach /\ ~last'.archived
               /\ UNCHANGED <<stageDir, stageMnt, broken, blkFile, blkMnt, devOf,
                              bdf, record, archive, sysfs>>]_vars

\* the probe reported input/output error, the forced unmount went through
\* and the call went on to detach the volume and archive its record
C30_Witness ==
    /\ last.op = "Unstage" /\ last.stat = "ioErr" /\ last.fault = "none"
    /\ last.unmount = "ok" /\ last.code = "OK" /\ last.detach /\ last.archived

\* the device backing the staging target of the volume before a call
StagedOn(v) == IF IsBlockVolume(v) THEN blkMnt[v] ELSE stageMnt[v]

\* C31 -- Stage fast-path condition.  A Stage call that returns success
\* without lookup, bind or attach found the staging target mounted from the
\* device that is the volume's, or the staging path mounted as tmpfs, or the
\* alternate-runtime marker; and a call that finds the staging target mounted
\* from a device that is not the volume's does not return success.
C31_FastPathCondition ==
    [][last'.op = "Stage" =>
         /\ (last'.code = "OK" /\ ~last'.attach /\ ~last'.lookup /\ ~last'.bind)
               => \/ StagedOn(last'.vol) \in Devices
                        /\ devOf[last'.vol] = StagedOn(last'.vol)
                  \/ stageMnt[last'.vol] = Tmpfs
                  \/ kata[last'.vol]
         /\ (/\ StagedOn(last'.vol) \in Devices
             /\ devOf[last'.vol] # StagedOn(last'.vol)
             /\ ~kata[last'.vol])
               => last'.code # "OK"]_vars

\* C32 -- Publish device-identity gate for filesystem volumes.  A Publish
\* call that mounts the staging path onto the target has compared the device
\* backing the staging mount with the device name it expected for the volume
\* and found them the same, or, in the disk driver, has found a tmpfs; a call
\* that has passed the mount check of the staging path and ends with the
\* staging path backed by no device or by another device than the expected
\* one (tmpfs included in the ens driver) returns Internal, has issued no
\* mount onto the target and leaves the mounts of the target as they were.
C32_PublishDeviceGate ==
    [][(last'.op = "Publish" /\ ~IsBlockVolume(last'.vol)) =>
         LET real == stageMnt'[last'.vol]
             same == real \in Devices /\ real = last'.expect
             tmpfs == cfg.driver = "disk" /\ real = Tmpfs
         IN /\ last'.binds > 0 => (last'.verify = "ok" /\ (same \/ tmpfs))
            /\ (last'.src # "unchecked" /\ ~same /\ ~tmpfs)
                  => (/\ last'.code = "Internal" /\ last'.binds = 0
                      /\ target'[last'.tgt].mnt = target[last'.tgt].mnt)]_vars

\* a Publish has found the staging path mounted from a device that is not
\* the volume's any more and has refused to mount it onto the target
C32_Witness ==
    /\ last.op = "Publish" /\ last.src = "mounted" /\ last.verify = "fail"
    /\ last.code = "Internal" /\ last.binds = 0 /\ target[last.tgt].mnt = <<>>
    /\ stageMnt[last.vol] \in Devices /\ last.expect \in Devices
    /\ last.expect = devOf[last.vol] /\ stageMnt[last.vol] # last.expect

\* ------------------------------------------------ claims on the whole resolver
\* C33 -- Metadata.Get(K) is stable: once Metadata.Get(K) has returned a
\* value, the next Metadata.Get(K), and so every later one, returns that
\* value, whatever the wrapped providers answer in between.
C33_StableGet ==
    [][\A k \in MetadataKeys :
          LatestGet(k).err = NilError
             => (last'.res[k].err = NilError /\ last'.res[k].v = LatestGet(k).v)]_vars

\* what Metadata.Get sees of a lazily initialized provider whose Get returned res
AsAnswer(res) ==
    CASE res = "fetchError" -> "error"
      [] res = "unknownKey" -> "unknown"
      [] OTHER -> res

\* Metadata.Get(key) on the chain [a provider that knows no key, the lazily
\* initialized provider], given what the latter's Get returned
GetBehind(key, res) ==
    MetadataGet(<<[name |-> 1, answer |-> [k \in MetadataKeys |-> "unknown"]],
                  [name |-> 2, answer |-> [k \in MetadataKeys |-> AsAnswer(res)]]>>, key)

\* C34 -- pinned construction failure.  Once the error of a failed
\* construction is stored, it stays stored, FetchFor is not called again, and
\* every Get that returns, for every key, returns that error; Metadata.Get
\* for a key no provider yields then returns the aggregate of that error and
\* not ErrUnknownMetadataKey.
C34_PinnedFailure ==
    [][lazy.err # 0 =>
         /\ lazy'.err = lazy.err /\ lazy'.provider = 0
         /\ lazy'.fetches = lazy.fetches
         /\ (last' # last /\ last'.op = "lazyGet")
               => /\ last'.res = "fetchError" /\ last'.via = lazy.err
                  /\ GetBehind(last'.key, last'.res).err
                        = NewAggregate(<<ErrorOf([name |-> 2])>>)
                  /\ GetBehind(last'.key, last'.res).err # ErrUnknownMetadataKey]_vars

\* a call that found the error pinned at its first check has returned it
\* without the lock and without FetchFor
C34_Witness ==
    /\ last.op = "lazyGet" /\ last.res = "fetchError" /\ last.via = lazy.err
    /\ ~last.fetched /\ ~last.waited /\ lazy.err # 0 /\ lazy.fetches = 1

\* C35 -- an unknown key does not consume the construction.  A Get whose
\* FetchFor answers ErrUnknownMetadataKey returns it and leaves the provider
\* as it was: no provider and no error stored, the fetcher kept, nothing
\* counted as built, the lock released; and whenever the provider is
\* uninitialized and unlocked it still has its fetcher, so that the next
\* FetchFor can construct.
C35_UnknownKeyKeepsFetcher ==
    [][/\ (last' # last /\ last'.op = "lazyGet" /\ last'.res = "unknownKey")
             => /\ last'.fetched
                /\ Uninitialized(lazy) /\ Uninitialized(lazy')
                /\ lazy.fetcher /\ lazy'.fetcher
                /\ lazy'.built = lazy.built /\ lazy'.initMu = 0
       /\ (Uninitialized(lazy') /\ lazy'.initMu = 0) => lazy'.fetcher]_vars

\* after a Get that was answered unknown-key, a Get has constructed the
\* provider and returned its value
C35_Witness ==
    /\ last.op = "lazyGet" /\ last.fetched /\ last.res = "value"
    /\ lazy.fetches = 2 /\ lazy.built = 1 /\ lazy.provider = 2

\* the locks caller c holds
HeldBy(c) ==
    {<<i, "initMu">> : i \in {j \in DOMAIN lazy : lazy[j].initMu = c}}
       \cup {<<i, "mu">> : i \in {j \in DOMAIN lazy : lazy[j].mu = c}}

\* C36 -- deadlock freedom of the metadata resolver.  A caller that is in no
\* call holds no lock; a caller that asks for a lock does not hold it
\* itself; and every Metadata.Get call that was entered returns.
C36_DeadlockFree ==
    /\ [](\A c \in Callers :
            /\ proc[c] = <<>> => HeldBy(c) = {}
            /\ At(c, "initLock") => lazy[Top(c).i].initMu # c
            /\ At(c, "muLock") => lazy[Top(c).i].mu # c)
    /\ \A c \in Callers : (proc[c] # <<>>) ~> (proc[c] = <<>>)

\* a caller that holds the initMu of an OpenAPI provider is, on its mPre,
\* waiting for a lock the other caller holds
C36_Witness ==
    \E c, d \in Callers :
       /\ c # d /\ Len(proc[c]) = 2 /\ proc[c][1].pc = "fetched"
       /\ lazy[proc[c][1].i].initMu = c
       /\ At(c, "initLock") /\ lazy[Top(c).i].initMu = d

\* whether the last component of a target path is "mount"
EndsInMount(t) ==
    LET pathParts == SplitOn(t, "/")
    IN pathParts # <<>> /\ pathParts[Len(pathParts)] = <<"mount">>

\* C37 -- the duplicate-mount cleanup of an ens Unpublish is conservative.
\* It unmounts the secondary global path only when the target path ends in
\* a "mount" component and the secondary path derived from it exists, is a
\* mount point and has no other mount reference; a cleanup that does not
\* unmount changes no secondary path and the call returns success; no
\* Unpublish changes a secondary path other than by this unmount, so one
\* that other mounts refer to stays mounted.
C37_ConservativeCleanup ==
    [][(last'.op = "Unpublish" /\ cfg.driver = "ens")
          => LET g == GlobalPath2(last'.tgt)
             IN /\ Took(last'.steps, "dupUnmount")
                      => (/\ EndsInMount(last'.tgt) /\ g \in DOMAIN global2
                          /\ global2[g] = "mounted"
                          /\ last'.steps[Len(last'.steps)] = "dupUnmount")
                /\ (Took(last'.steps, "dup") /\ ~Took(last'.steps, "dupUnmount"))
                      => (global2' = global2 /\ last'.code = "OK")
                /\ \A h \in DOMAIN global2 :
                      global2'[h] # global2[h]
                         => (/\ h = g /\ Took(last'.steps, "dupUnmount")
                             /\ last'.code = "OK" /\ global2'[h] = "dir")
                /\ \A h \in DOMAIN global2 :
                      global2[h] = "shared" => global2'[h] = "shared"]_vars

\* a cleanup has left a secondary path that other mounts refer to alone
\* and returned success
C37_Witness ==
    /\ last # Idle /\ last.op = "Unpublish" /\ cfg.driver = "ens"
    /\ Took(last.steps, "dup") /\ ~Took(last.steps, "dupUnmount")
    /\ last.code = "OK"
    /\ GlobalPath2(last.tgt) \in DOMAIN global2
    /\ global2[GlobalPath2(last.tgt)] = "shared"

\* C38 -- isolation between volume IDs.  A Stage, Unstage, Publish,
\* Unpublish or Expand call for one volume ID leaves the live Device Record
\* of every other volume ID as it was, archives nothing under another ID,
\* and leaves the mounts on the staging and target paths of every other
\* volume as they were, whatever calls came before.
C38_Isolation ==
    [][last'.op # "none"
          => \A b \in VolumeIDs \ {last'.vol} :
                /\ record'[b] = record[b]
                /\ {e \in archive' : e.id = b} = {e \in archive : e.id = b}
                /\ stageMnt'[b] = stageMnt[b] /\ blkMnt'[b] = blkMnt[b]
                /\ \A t \in TargetsOf(b) : target'[t].mnt = target[t].mnt]_vars

\* an Unstage of one volume has archived its record while the other volume
\* is staged, published and on record
C38_Witness ==
    \E a, b \in VolumeIDs :
       /\ a # b /\ last = Call("Unstage", a)
       /\ record[a] = NoFile /\ \E e \in archive : e.id = a
       /\ record[b] # NoFile /\ stageMnt[b] # NoDevice
       /\ \E t \in TargetsOf(b) : target[t].mnt # <<>>

\* C39 -- a failed detach keeps the record for a retry.  When Unstage has
\* called detachDisk and the call failed, Unstage returns the error of the
\* call and the live Device Record and the archive are as they were; an
\* Unstage that has archived the record has detached the disk before.
C39_FailedDetachKeepsRecord ==
    [][last'.op = "Unstage"
          => /\ (last'.detach /\ last'.code # "OK")
                   => (/\ last'.code = "Error" /\ ~last'.archived
                       /\ record' = record /\ archive' = archive
                       /\ devOf' = devOf)
             /\ last'.archived
                   => (/\ last'.detach /\ last'.code = "OK"
                       /\ devOf[last'.vol] # NoDevice => devOf'[last'.vol] = NoDevice)]_vars

\* an Unstage whose detach failed has left the record of the volume in place
C39_Witness ==
    /\ last.op = "Unstage" /\ last.detach /\ last.code = "Error"
    /\ record[last.vol] # NoFile /\ devOf[last.vol] # NoDevice

\* what a Stage call that did not get to write or mount leaves alone
StageLeftNothing(v) ==
    /\ ~last'.saved /\ ~last'.archived /\ ~last'.mount
    /\ record' = record /\ archive' = archive
    /\ stageMnt' = stageMnt /\ blkMnt' = blkMnt

\* C40 -- Stage error classification.  A Stage whose attach call failed,
\* or which looked the device up because attach is left to an external
\* controller and did not find it, returns Aborted and has written no
\* Device Record and mounted nothing.  A Stage that fails before it gets to
\* the device (the local mount-point checks), on the device verification
\* or on format/mount returns Internal (InvalidArgument for a request that
\* is refused), never Aborted.
C40_StageErrorClasses ==
    [][last'.op = "Stage"
          => /\ (last'.attach /\ last'.verify = "none")
                   => (last'.code = "Aborted" /\ StageLeftNothing(last'.vol))
             /\ (last'.lookup /\ ~last'.bind /\ devOf[last'.vol] = NoDevice)
                   => (last'.code = "Aborted" /\ StageLeftNothing(last'.vol))
             /\ (~last'.attach /\ ~last'.lookup /\ last'.code # "OK")
                   => last'.code \in {"Internal", "InvalidArgument"}
             /\ last'.verify = "fail" => last'.code = "Internal"
             /\ (last'.mount /\ last'.code # "OK") => last'.code = "Internal"]_vars

====